---------------------------- MODULE Spec2Model ----------------------------
(***************************************************************************)
(* A model of the UI builder: the element store (UiBuilderService), the    *)
(* anchor geometry and snapping of the canvas (CanvasComponent), and the   *)
(* TypeScript export / import pipeline (serializer, payload extraction,    *)
(* tokenizer, recursive-descent parser, normalizer).                       *)
(*                                                                         *)
(* Conventions.                                                            *)
(*  - Text is a TLA+ string; characters are strings of length 1 and        *)
(*    indices are 1-based (the source's index i is i + 1 here).            *)
(*  - A JavaScript number is a decimal with at most FixedDigits + 1        *)
(*    fractional digits, held as the integer  value * Scale.               *)
(*    Sizes are drawn with at most FixedDigits digits, so size / 2 is      *)
(*    exact.                                                               *)
(*  - An element id `element_N` is held as the integer N.                  *)
(*  - A while loop of the source is a LoopBody operator (one iteration,    *)
(*    the identity once the loop has ended) and a Run operator that        *)
(*    applies it until the loop has ended.                                 *)
(***************************************************************************)
EXTENDS Integers, Sequences, FiniteSets, TLC

\* ---------------------------------------------------------------------
\* Numbers
\* ---------------------------------------------------------------------
FixedDigits == 4

RECURSIVE Pow10(_)
Pow10(n) == IF n = 0 THEN 1 ELSE 10 * Pow10(n - 1)

Scale == Pow10(FixedDigits + 1)

Num(n) == n * Scale

Abs(x) == IF x < 0 THEN 0 - x ELSE x

Min(S) == CHOOSE x \in S : \A y \in S : x <= y

Max2(a, b) == IF a >= b THEN a ELSE b

Min2(a, b) == IF a <= b THEN a ELSE b

\* x / 2 on the fixed-point grid: exact for every value with an even
\* number of grid units (\div rounds towards minus infinity otherwise)
Half(x) == x \div 2

\* the element of a one-element set: The({ e(v) : v \in {a} }) evaluates a
\* once and names its value v in e, as a `const v = a` does
The(S) == CHOOSE r \in S : TRUE

\* ---------------------------------------------------------------------
\* Enumerations (ordinal = index - 1)
\* ---------------------------------------------------------------------
UIAnchorNames ==
  << "BottomCenter", "BottomLeft", "BottomRight", "Center", "CenterLeft",
     "CenterRight", "TopCenter", "TopLeft", "TopRight" >>

UIBgFillNames ==
  << "Blur", "GradientBottom", "GradientLeft", "GradientRight", "GradientTop",
     "None", "OutlineThick", "OutlineThin", "Solid" >>

UIImageTypeNames ==
  << "CrownOutline", "CrownSolid", "None", "QuestionMark", "RifleAmmo",
     "SelfHeal", "SpawnBeacon", "TEMP_PortalIcon" >>

EnumOrdinal(names, key) ==
  IF \E i \in 1..Len(names) : names[i] = key
  THEN (CHOOSE i \in 1..Len(names) : names[i] = key) - 1
  ELSE -1

BottomCenter == EnumOrdinal(UIAnchorNames, "BottomCenter")
BottomLeft   == EnumOrdinal(UIAnchorNames, "BottomLeft")
BottomRight  == EnumOrdinal(UIAnchorNames, "BottomRight")
Center       == EnumOrdinal(UIAnchorNames, "Center")
CenterLeft   == EnumOrdinal(UIAnchorNames, "CenterLeft")
CenterRight  == EnumOrdinal(UIAnchorNames, "CenterRight")
TopCenter    == EnumOrdinal(UIAnchorNames, "TopCenter")
TopLeft      == EnumOrdinal(UIAnchorNames, "TopLeft")
TopRight     == EnumOrdinal(UIAnchorNames, "TopRight")

BgFillNone    == EnumOrdinal(UIBgFillNames, "None")
ImageTypeNone == EnumOrdinal(UIImageTypeNames, "None")

Anchors == 0..(Len(UIAnchorNames) - 1)

UIElementTypes == {"Container", "Text", "Image", "Button"}

CANVAS_WIDTH  == Num(1920)
CANVAS_HEIGHT == Num(1080)

\* null / undefined of the source: NullRec where an object is expected,
\* NoId where an element id is expected (ids start at 1)
NullRec == [isNull |-> TRUE]

NoId == 0

\* ---------------------------------------------------------------------
\* DEFAULT_UI_PARAMS
\* ---------------------------------------------------------------------
DEFAULT_UI_PARAMS ==
  [ parent |-> NoId,
    locked |-> FALSE,
    position |-> << Num(0), Num(0) >>,
    size |-> << Num(100), Num(50) >>,
    anchor |-> TopLeft,
    visible |-> TRUE,
    textLabel |-> "",
    textColor |-> << Num(1), Num(1), Num(1) >>,
    textAlpha |-> Num(1),
    textSize |-> Num(24),
    textAnchor |-> Center,
    padding |-> Num(0),
    bgColor |-> << Num(2) \div 10, Num(2) \div 10, Num(2) \div 10 >>,
    bgAlpha |-> Num(1),
    bgFill |-> BgFillNone,
    imageType |-> ImageTypeNone,
    imageColor |-> << Num(1), Num(1), Num(1) >>,
    imageAlpha |-> Num(1),
    buttonEnabled |-> FALSE,
    buttonColorBase |-> << Num(3) \div 10, Num(3) \div 10, Num(3) \div 10 >>,
    buttonAlphaBase |-> Num(1),
    buttonColorDisabled |-> << Num(1) \div 10, Num(1) \div 10, Num(1) \div 10 >>,
    buttonAlphaDisabled |-> Num(5) \div 10,
    buttonColorPressed |-> << Num(2) \div 10, Num(2) \div 10, Num(2) \div 10 >>,
    buttonAlphaPressed |-> Num(1),
    buttonColorHover |-> << Num(4) \div 10, Num(4) \div 10, Num(4) \div 10 >>,
    buttonAlphaHover |-> Num(1),
    buttonColorFocused |-> << Num(5) \div 10, Num(5) \div 10, Num(5) \div 10 >>,
    buttonAlphaFocused |-> Num(1),
    advancedMetadata |-> NullRec ]

\* ---------------------------------------------------------------------
\* Anchor geometry (UiBuilderService)
\* ---------------------------------------------------------------------
getAnchorStartCoordinates(anchor, parentWidth, parentHeight) ==
  CASE anchor = TopLeft      -> [x |-> 0, y |-> 0]
    [] anchor = TopCenter    -> [x |-> Half(parentWidth), y |-> 0]
    [] anchor = TopRight     -> [x |-> parentWidth, y |-> 0]
    [] anchor = CenterLeft   -> [x |-> 0, y |-> Half(parentHeight)]
    [] anchor = Center       -> [x |-> Half(parentWidth), y |-> Half(parentHeight)]
    [] anchor = CenterRight  -> [x |-> parentWidth, y |-> Half(parentHeight)]
    [] anchor = BottomLeft   -> [x |-> 0, y |-> parentHeight]
    [] anchor = BottomCenter -> [x |-> Half(parentWidth), y |-> parentHeight]
    [] anchor = BottomRight  -> [x |-> parentWidth, y |-> parentHeight]
    [] OTHER                 -> [x |-> 0, y |-> 0]

MutOffsetNoHalf(anchor, size) ==
  [ x |-> IF anchor \in {TopCenter, Center, BottomCenter, TopRight, CenterRight, BottomRight}
          THEN 0 - size[1] ELSE 0,
    y |-> IF anchor \in {CenterLeft, Center, CenterRight, BottomLeft, BottomCenter, BottomRight}
          THEN 0 - size[2] ELSE 0 ]

getAnchorOffset(anchor, size) ==
  LET width == size[1]
      height == size[2]
      offsetX == CASE anchor \in {TopCenter, Center, BottomCenter} -> Half(0 - width)
                   [] anchor \in {TopRight, CenterRight, BottomRight} -> 0 - width
                   [] OTHER -> 0
      offsetY == CASE anchor \in {CenterLeft, Center, CenterRight} -> Half(0 - height)
                   [] anchor \in {BottomLeft, BottomCenter, BottomRight} -> 0 - height
                   [] OTHER -> 0
  IN [x |-> offsetX, y |-> offsetY]

\* ---------------------------------------------------------------------
\* The element tree
\* ---------------------------------------------------------------------
\* {...r, ...u}: object spread, the fields of u override those of r
Spread(r, u) ==
  [f \in (DOMAIN r) \cup (DOMAIN u) |-> IF f \in DOMAIN u THEN u[f] ELSE r[f]]

RECURSIVE Flatten(_)
\* every node of a forest, parents before children, siblings in order
Flatten(elems) ==
  IF elems = << >> THEN << >>
  ELSE << Head(elems) >> \o Flatten(Head(elems).children) \o Flatten(Tail(elems))

NodeIds(elems) == { Flatten(elems)[i].id : i \in 1..Len(Flatten(elems)) }

findElementById(elems, id) ==
  The({ IF \E i \in 1..Len(flat) : flat[i].id = id
        THEN flat[Min({ i \in 1..Len(flat) : flat[i].id = id })]
        ELSE NullRec : flat \in { Flatten(elems) } })

\* the update of updateElement's callback: a locked element keeps its
\* position and size unless the update itself unlocks it
updateElementFn(element, updates) ==
  LET requestedLocked == IF "locked" \in DOMAIN updates /\ updates.locked \in BOOLEAN
                         THEN updates.locked ELSE element.locked
      nextUpdates == IF element.locked /\ requestedLocked # FALSE
                     THEN [f \in (DOMAIN updates) \ {"position", "size"} |-> updates[f]]
                     ELSE updates
  IN Spread(element, nextUpdates)

\* the callbacks handed to updateElementRecursive, by the name of the caller
ApplyUpdateFn(caller, element, arg) ==
  CASE caller = "updateElement" -> updateElementFn(element, arg)
    [] caller = "spread" -> Spread(element, arg)
    [] caller = "addElement" ->
         [element EXCEPT !.children = Append(@, arg)]
    [] caller = "insertCloneAtLocation" ->
         [element EXCEPT !.children =
            SubSeq(@, 1, arg.index) \o << arg.clone >> \o SubSeq(@, arg.index + 1, Len(@))]

RECURSIVE updateElementRecursive(_, _, _, _)
updateElementRecursive(elems, targetId, caller, arg) ==
  [ i \in 1..Len(elems) |->
      IF elems[i].id = targetId THEN ApplyUpdateFn(caller, elems[i], arg)
      ELSE IF Len(elems[i].children) > 0
           THEN [elems[i] EXCEPT !.children = updateElementRecursive(@, targetId, caller, arg)]
           ELSE elems[i] ]

MutUpdateIgnoresLock(elems, elementId, updates) ==
  updateElementRecursive(elems, elementId, "spread", updates)

updateElement(elems, elementId, updates) ==
  updateElementRecursive(elems, elementId, "updateElement", updates)

RECURSIVE LocationSearch(_, _, _)
\* getElementLocation: the sibling list is searched first, then each subtree
LocationSearch(elems, parentId, elementId) ==
  IF \E i \in 1..Len(elems) : elems[i].id = elementId
  THEN [ parentId |-> parentId,
         index |-> Min({ i \in 1..Len(elems) : elems[i].id = elementId }) - 1,
         siblingCount |-> Len(elems) ]
  ELSE The({ IF \E i \in 1..Len(elems) : down[i] # NullRec
             THEN down[Min({ i \in 1..Len(elems) : down[i] # NullRec })]
             ELSE NullRec
             : down \in { [ i \in 1..Len(elems) |->
                              IF Len(elems[i].children) > 0
                              THEN LocationSearch(elems[i].children, elems[i].id, elementId)
                              ELSE NullRec ] } })

getElementLocation(elems, elementId) == LocationSearch(elems, NoId, elementId)

\* ---------------------------------------------------------------------
\* Absolute bounds (UiBuilderService.computeElementBounds)
\* ---------------------------------------------------------------------
MkRect(left, top, width, height) ==
  [ left |-> left, top |-> top, right |-> left + width, bottom |-> top + height,
    width |-> width, height |-> height,
    centerX |-> left + Half(width), centerY |-> top + Half(height) ]

canvasRect == MkRect(0, 0, CANVAS_WIDTH, CANVAS_HEIGHT)

RECURSIVE BoundsTraverse(_, _, _)
BoundsTraverse(elems, parentRect, parentId) ==
  IF elems = << >> THEN << >>
  ELSE
    LET element == Head(elems)
        parentWidth == IF parentRect # NullRec THEN parentRect.width ELSE CANVAS_WIDTH
        parentHeight == IF parentRect # NullRec THEN parentRect.height ELSE CANVAS_HEIGHT
        baseX == IF parentRect # NullRec THEN parentRect.left ELSE 0
        baseY == IF parentRect # NullRec THEN parentRect.top ELSE 0
    IN The({ The({ << [id |-> element.id, parentId |-> parentId, rect |-> rect] >>
                   \o (IF Len(element.children) > 0
                       THEN BoundsTraverse(element.children, rect, element.id) ELSE << >>)
                   \o BoundsTraverse(Tail(elems), parentRect, parentId)
                   : rect \in { MkRect(
                       baseX + anchorStart.x + anchorOffset.x + element.position[1],
                       baseY + anchorStart.y + anchorOffset.y + element.position[2],
                       element.size[1], element.size[2]) } })
             : anchorStart \in { getAnchorStartCoordinates(element.anchor, parentWidth,
                                                           parentHeight) },
               anchorOffset \in { getAnchorOffset(element.anchor, element.size) } })

MutBoundsFromCanvas(elems) ==
  The({ [ i \in 1..Len(flat) |->
            The({ [ id |-> flat[i].id, parentId |-> getElementLocation(elems, flat[i].id).parentId,
                    rect |-> MkRect(st.x + off.x + flat[i].position[1],
                                    st.y + off.y + flat[i].position[2],
                                    flat[i].size[1], flat[i].size[2]) ]
                  : st \in { getAnchorStartCoordinates(flat[i].anchor, CANVAS_WIDTH,
                                                       CANVAS_HEIGHT) },
                    off \in { getAnchorOffset(flat[i].anchor, flat[i].size) } }) ]
        : flat \in { Flatten(elems) } })

computeElementBounds(elems) == BoundsTraverse(elems, NullRec, NoId)

\* getElementBounds: the first entry of the bounds list with this id
getElementBounds(elems, elementId) ==
  The({ IF \E i \in 1..Len(all) : all[i].id = elementId
        THEN all[Min({ i \in 1..Len(all) : all[i].id = elementId })]
        ELSE NullRec : all \in { computeElementBounds(elems) } })

\* ---------------------------------------------------------------------
\* Canvas geometry (CanvasComponent)
\* ---------------------------------------------------------------------
\* the first node, parents before children, that lists childId as a child
IsParentOf(element, childId) ==
  \E k \in 1..Len(element.children) : element.children[k].id = childId

findParentElement(elems, childId) ==
  The({ IF \E i \in 1..Len(flat) : IsParentOf(flat[i], childId)
        THEN flat[Min({ i \in 1..Len(flat) : IsParentOf(flat[i], childId) })]
        ELSE NullRec : flat \in { Flatten(elems) } })

MutAnchorStartInCanvas(anchor, parentElement) ==
  getAnchorStartCoordinates(anchor, CANVAS_WIDTH, CANVAS_HEIGHT)

\* getAnchorStartCoordinates of the canvas: the anchor point in the parent's
\* box, or in the canvas for a root
canvasAnchorStart(anchor, parentElement) ==
  IF parentElement # NullRec
  THEN getAnchorStartCoordinates(anchor, parentElement.size[1], parentElement.size[2])
  ELSE getAnchorStartCoordinates(anchor, CANVAS_WIDTH, CANVAS_HEIGHT)

\* the position of an element in its parent's box
LocalGamePosition(element, parentElement) ==
  The({ [ x |-> anchorStart.x + anchorOffset.x + element.position[1],
          y |-> anchorStart.y + anchorOffset.y + element.position[2] ]
        : anchorStart \in { canvasAnchorStart(element.anchor, parentElement) },
          anchorOffset \in { getAnchorOffset(element.anchor, element.size) } })

RECURSIVE getAbsoluteGamePosition(_, _)
getAbsoluteGamePosition(elems, element) ==
  The({ IF parentElement = NullRec
        THEN LocalGamePosition(element, NullRec)
        ELSE The({ [ x |-> parentAbsolutePos.x + own.x, y |-> parentAbsolutePos.y + own.y ]
                   : parentAbsolutePos \in { getAbsoluteGamePosition(elems, parentElement) },
                     own \in { LocalGamePosition(element, parentElement) } })
        : parentElement \in { findParentElement(elems, element.id) } })

MutAdjustNoOffset(elems, absoluteGameX, absoluteGameY, element) ==
  The({ The({ [ x |-> absoluteGameX - base.x - anchorStart.x,
                y |-> absoluteGameY - base.y - anchorStart.y ]
              : base \in { IF parentElement = NullRec THEN [x |-> 0, y |-> 0]
                           ELSE getAbsoluteGamePosition(elems, parentElement) },
                anchorStart \in { canvasAnchorStart(element.anchor, parentElement) } })
        : parentElement \in { findParentElement(elems, element.id) } })

calculateAnchorAdjustedPosition(elems, absoluteGameX, absoluteGameY, element) ==
  The({ The({ [ x |-> (absoluteGameX - parentAbsolutePos.x) - anchorStart.x - anchorOffset.x,
                y |-> (absoluteGameY - parentAbsolutePos.y) - anchorStart.y - anchorOffset.y ]
              : parentAbsolutePos \in { IF parentElement = NullRec THEN [x |-> 0, y |-> 0]
                                        ELSE getAbsoluteGamePosition(elems, parentElement) },
                anchorStart \in { canvasAnchorStart(element.anchor, parentElement) },
                anchorOffset \in { getAnchorOffset(element.anchor, element.size) } })
        : parentElement \in { findParentElement(elems, element.id) } })

\* ---------------------------------------------------------------------
\* Snapping (CanvasComponent)
\* ---------------------------------------------------------------------
snapThreshold == Num(8)

canvasBounds == [id |-> NoId, parentId |-> NoId, rect |-> canvasRect]

\* The bounds entries behind getSiblingRectsForSnapping of
\* canvas.component.ts: the siblings, then the parent (or the canvas)
SiblingBoundsForSnapping(elems, elementId) ==
  The({ The({ IF parentId # NoId
              THEN (IF parentBounds # NullRec THEN Append(siblings, parentBounds) ELSE siblings)
              ELSE Append(siblings, canvasBounds)
              : siblings \in { SelectSeq(computeElementBounds(elems),
                                 LAMBDA b : b.parentId = parentId /\ b.id # elementId) },
                parentBounds \in { getElementBounds(elems, parentId) } })
        : parentId \in { The({ IF location # NullRec THEN location.parentId ELSE NoId
                               : location \in { getElementLocation(elems, elementId) } }) } })

getSiblingRectsForSnapping(elems, elementId) ==
  The({ [ i \in 1..Len(entries) |-> entries[i].rect ]
        : entries \in { SiblingBoundsForSnapping(elems, elementId) } })

\* The same of the multi-select canvas: co-moving siblings are left out
SiblingBoundsForSnappingMulti(elems, elementId, excludeIds) ==
  The({ The({ IF parentId # NoId
              THEN (IF parentBounds # NullRec THEN Append(siblings, parentBounds) ELSE siblings)
              ELSE Append(siblings, canvasBounds)
              : siblings \in { SelectSeq(computeElementBounds(elems),
                                 LAMBDA b : /\ b.parentId = parentId
                                            /\ b.id # elementId
                                            /\ b.id \notin excludeIds) },
                parentBounds \in { getElementBounds(elems, parentId) } })
        : parentId \in { The({ IF location # NullRec THEN location.parentId ELSE NoId
                               : location \in { getElementLocation(elems, elementId) } }) } })

getSiblingRectsForSnappingMulti(elems, elementId, excludeIds) ==
  The({ [ i \in 1..Len(entries) |-> entries[i].rect ]
        : entries \in { SiblingBoundsForSnappingMulti(elems, elementId, excludeIds) } })

SnapStart(proposedX, proposedY) ==
  [ snappedX |-> proposedX, snappedY |-> proposedY,
    bestHorizontalDiff |-> snapThreshold + Num(1),
    bestVerticalDiff |-> snapThreshold + Num(1),
    verticalGuide |-> << >>, horizontalGuide |-> << >> ]

MutSnapCheckXStrict(st, diff, snapped, guide) ==
  The({ IF diff < s.bestHorizontalDiff /\ diff < snapThreshold
        THEN [s EXCEPT !.bestHorizontalDiff = diff, !.snappedX = snapped,
                       !.verticalGuide = << guide >>]
        ELSE s : s \in {st} })

\* a line at the same distance as the best so far takes its place
MutSnapCheckXLastWins(st, diff, snapped, guide) ==
  The({ IF diff <= s.bestHorizontalDiff /\ diff <= snapThreshold
        THEN [s EXCEPT !.bestHorizontalDiff = diff, !.snappedX = snapped,
                       !.verticalGuide = << guide >>]
        ELSE s : s \in {st} })

\* one `if (diff < best && diff <= threshold)` block of the x axis
SnapCheckX(st, diff, snapped, guide) ==
  The({ IF diff < s.bestHorizontalDiff /\ diff <= snapThreshold
        THEN [s EXCEPT !.bestHorizontalDiff = diff, !.snappedX = snapped,
                       !.verticalGuide = << guide >>]
        ELSE s : s \in {st} })

\* one `if (diff < best && diff <= threshold)` block of the y axis
SnapCheckY(st, diff, snapped, guide) ==
  The({ IF diff < s.bestVerticalDiff /\ diff <= snapThreshold
        THEN [s EXCEPT !.bestVerticalDiff = diff, !.snappedY = snapped,
                       !.horizontalGuide = << guide >>]
        ELSE s : s \in {st} })

MutSnapRectCrossEdges(st, rect, proposedX, proposedY, width, height) ==
  LET s1 == SnapCheckX(st, Abs(rect.right - proposedX), rect.right, rect.right)
      s2 == SnapCheckX(s1, Abs(rect.left - (proposedX + width)), rect.left - width, rect.left)
      s3 == SnapCheckX(s2, Abs(rect.centerX - (proposedX + Half(width))),
                       rect.centerX - Half(width), rect.centerX)
      s4 == SnapCheckY(s3, Abs(rect.bottom - proposedY), rect.bottom, rect.bottom)
      s5 == SnapCheckY(s4, Abs(rect.top - (proposedY + height)), rect.top - height, rect.top)
      s6 == SnapCheckY(s5, Abs(rect.centerY - (proposedY + Half(height))),
                       rect.centerY - Half(height), rect.centerY)
  IN s6

\* the body of `for (const rect of candidateRects)` in canvas.component.ts
SnapRect(st, rect, proposedX, proposedY, width, height) ==
  LET baseLeft == proposedX
      baseRight == proposedX + width
      baseCenterX == proposedX + Half(width)
      baseTop == proposedY
      baseBottom == proposedY + height
      baseCenterY == proposedY + Half(height)
      s1 == SnapCheckX(st, Abs(rect.left - baseLeft), rect.left, rect.left)
      s2 == SnapCheckX(s1, Abs(rect.right - baseRight), rect.right - width, rect.right)
      s3 == SnapCheckX(s2, Abs(rect.centerX - baseCenterX), rect.centerX - Half(width), rect.centerX)
      s4 == SnapCheckY(s3, Abs(rect.top - baseTop), rect.top, rect.top)
      s5 == SnapCheckY(s4, Abs(rect.bottom - baseBottom), rect.bottom - height, rect.bottom)
      s6 == SnapCheckY(s5, Abs(rect.centerY - baseCenterY), rect.centerY - Half(height), rect.centerY)
  IN s6

RECURSIVE SnapLoop(_, _, _, _, _, _)
SnapLoop(st, rects, proposedX, proposedY, width, height) ==
  IF rects = << >> THEN st
  ELSE SnapLoop(SnapRect(st, Head(rects), proposedX, proposedY, width, height),
                Tail(rects), proposedX, proposedY, width, height)

SnapResult(st) ==
  The({ [ x |-> s.snappedX, y |-> s.snappedY,
          vertical |-> IF s.bestHorizontalDiff > snapThreshold THEN << >>
                       ELSE s.verticalGuide,
          horizontal |-> IF s.bestVerticalDiff > snapThreshold THEN << >>
                         ELSE s.horizontalGuide ] : s \in {st} })

NoSnap(proposedX, proposedY) ==
  [ x |-> proposedX, y |-> proposedY, vertical |-> << >>, horizontal |-> << >> ]

\* applySnapping of canvas.component.ts; the guides are the arguments of
\* updateSnapGuides (in game units, before the view's scale factor)
applySnapping(elems, snapEnabled, element, proposedX, proposedY) ==
  IF ~snapEnabled THEN NoSnap(proposedX, proposedY)
  ELSE The({ IF Len(candidateRects) = 0 THEN NoSnap(proposedX, proposedY)
             ELSE SnapResult(SnapLoop(SnapStart(proposedX, proposedY), candidateRects,
                                      proposedX, proposedY, element.size[1], element.size[2]))
             : candidateRects \in { getSiblingRectsForSnapping(elems, element.id) } })

\* the snapChecks table of the multi-select canvas
snapChecks ==
  << [edge |-> "left", axis |-> "x"], [edge |-> "right", axis |-> "x"],
     [edge |-> "centerX", axis |-> "x"], [edge |-> "top", axis |-> "y"],
     [edge |-> "bottom", axis |-> "y"], [edge |-> "centerY", axis |-> "y"] >>

\* the body of `for (const { edge, axis, guide } of snapChecks)`
SnapCheckMulti(st, check, rect, elementEdges, width, height) ==
  LET isHorizontal == check.axis = "x"
      elementValue == elementEdges[check.edge]
      rectValue == rect[check.edge]
      diff == Abs(rectValue - elementValue)
  IN The({ IF diff > snapThreshold THEN s
           ELSE IF diff >= (IF isHorizontal THEN s.bestHorizontalDiff ELSE s.bestVerticalDiff)
           THEN s
           ELSE IF isHorizontal
           THEN [s EXCEPT !.bestHorizontalDiff = diff,
                          !.snappedX = CASE check.edge = "right" -> rectValue - width
                                         [] check.edge = "centerX" -> rectValue - Half(width)
                                         [] OTHER -> rectValue,
                          !.verticalGuide = << rectValue >>]
           ELSE [s EXCEPT !.bestVerticalDiff = diff,
                          !.snappedY = CASE check.edge = "bottom" -> rectValue - height
                                         [] check.edge = "centerY" -> rectValue - Half(height)
                                         [] OTHER -> rectValue,
                          !.horizontalGuide = << rectValue >>] : s \in {st} })

RECURSIVE SnapChecksLoop(_, _, _, _, _, _)
SnapChecksLoop(st, checks, rect, elementEdges, width, height) ==
  IF checks = << >> THEN st
  ELSE SnapChecksLoop(SnapCheckMulti(st, Head(checks), rect, elementEdges, width, height),
                      Tail(checks), rect, elementEdges, width, height)

RECURSIVE SnapLoopMulti(_, _, _, _, _)
SnapLoopMulti(st, rects, elementEdges, width, height) ==
  IF rects = << >> THEN st
  ELSE SnapLoopMulti(SnapChecksLoop(st, snapChecks, Head(rects), elementEdges, width, height),
                     Tail(rects), elementEdges, width, height)

\* applySnapping of the multi-select canvas
applySnappingMulti(elems, snapEnabled, element, proposedX, proposedY, excludeIds) ==
  LET width == element.size[1]
      height == element.size[2]
      elementEdges == [ left |-> proposedX, right |-> proposedX + width,
                        centerX |-> proposedX + Half(width),
                        top |-> proposedY, bottom |-> proposedY + height,
                        centerY |-> proposedY + Half(height) ]
  IN IF ~snapEnabled THEN NoSnap(proposedX, proposedY)
     ELSE The({ IF Len(candidateRects) = 0 THEN NoSnap(proposedX, proposedY)
                ELSE SnapResult(SnapLoopMulti(SnapStart(proposedX, proposedY), candidateRects,
                                              elementEdges, width, height))
                : candidateRects \in
                    { getSiblingRectsForSnappingMulti(elems, element.id, excludeIds) } })

\* Math.round(value * 10^decimals) / 10^decimals (ties towards plus infinity)
roundValue(value, decimals) ==
  LET q == Pow10(FixedDigits + 1 - decimals)
  IN ((value + Half(q)) \div q) * q

\* ---------------------------------------------------------------------
\* State
\* ---------------------------------------------------------------------
VARIABLES
  elements,            \* UiBuilderService._elements: the forest of root elements
  selectedElementId,   \* UiBuilderService._selectedElementId (NoId: null)
  nextId,              \* UiBuilderService._nextId
  copiedElement,       \* UiBuilderService._copiedElement (NullRec: null)
  snapToElements,      \* UiBuilderService._snapToElements
  selectedElementIds,  \* the multi-selection read by the multi-select canvas
  component,           \* which CanvasComponent is mounted: "single" or "multi"
  isDragging,          \* CanvasComponent.isDragging
  dragElement,         \* CanvasComponent.dragElement: the element as it was at mouse-down
  dragOffset,          \* CanvasComponent.dragOffset
  dragElementStartAbsolute, \* CanvasComponent.dragElementStartAbsolute
  multiDragElements,   \* CanvasComponent.multiDragElements
  snapGuides,          \* CanvasComponent.snapGuides
  snapCall,            \* the last applySnapping call: arguments, candidates, result
  moves,               \* pointer events handled so far
  artifacts,           \* the result of the last generateExportArtifacts
  lastCall,            \* the last store call: its name, arguments, pre-state and result
  calls,               \* store calls made so far
  probe,               \* the arguments drawn for a pure function
  probeOut             \* its result

storeVars == << elements, selectedElementId, nextId, copiedElement, snapToElements,
                selectedElementIds >>

canvasVars == << component, isDragging, dragElement, dragOffset, dragElementStartAbsolute,
                 multiDragElements, snapGuides, snapCall, moves >>

ioVars == << artifacts, lastCall, calls >>

probeVars == << probe, probeOut >>

vars == << storeVars, canvasVars, ioVars, probeVars >>

\* the state of a freshly constructed service and canvas
FreshStore ==
  /\ elements = << >>
  /\ selectedElementId = NoId
  /\ nextId = 1
  /\ copiedElement = NullRec
  /\ snapToElements = TRUE
  /\ selectedElementIds = << >>

FreshCanvas ==
  /\ component = "single"
  /\ isDragging = FALSE
  /\ dragElement = NullRec
  /\ dragOffset = [x |-> 0, y |-> 0]
  /\ dragElementStartAbsolute = [x |-> 0, y |-> 0]
  /\ multiDragElements = << >>
  /\ snapGuides = [vertical |-> << >>, horizontal |-> << >>]
  /\ snapCall = NullRec
  /\ moves = 0

FreshIo ==
  /\ artifacts = NullRec
  /\ lastCall = NullRec
  /\ calls = 0

FreshProbe ==
  /\ probe = NullRec
  /\ probeOut = NullRec

\* ---------------------------------------------------------------------
\* Pointer handlers of canvas.component.ts (single selection)
\* ---------------------------------------------------------------------
\* createUIElement's record with the given fields set
MkElement(id, name, type, position, size, anchor, locked, children) ==
  Spread(DEFAULT_UI_PARAMS,
         [ id |-> id, name |-> name, type |-> type, position |-> position, size |-> size,
           anchor |-> anchor, locked |-> locked, children |-> children ])

onElementMouseDown(elementId, mouseGameX, mouseGameY) ==
  \E element \in { findElementById(elements, elementId) } :
    /\ component = "single"
    /\ selectedElementId' = elementId
    /\ IF element = NullRec
       THEN UNCHANGED << isDragging, dragElement, dragOffset >>
       ELSE \E elementGamePosition \in { getAbsoluteGamePosition(elements, element) } :
              /\ isDragging' = TRUE
              /\ dragElement' = element
              /\ dragOffset' = [ x |-> mouseGameX - elementGamePosition.x,
                                 y |-> mouseGameY - elementGamePosition.y ]
    /\ moves' = moves + 1
    /\ UNCHANGED << elements, nextId, copiedElement, snapToElements, selectedElementIds,
                    component, dragElementStartAbsolute, multiDragElements, snapGuides,
                    snapCall, ioVars, probeVars >>

\* the drag branch of onMouseMove
DragTo(newElementGameX, newElementGameY) ==
  \E snapped \in { applySnapping(elements, snapToElements, dragElement,
                                 newElementGameX, newElementGameY) } :
    \E newPosition \in { calculateAnchorAdjustedPosition(elements, snapped.x, snapped.y,
                                                         dragElement) } :
      /\ snapGuides' = [vertical |-> snapped.vertical, horizontal |-> snapped.horizontal]
      /\ snapCall' = [ elementId |-> dragElement.id,
                       proposedX |-> newElementGameX, proposedY |-> newElementGameY,
                       width |-> dragElement.size[1], height |-> dragElement.size[2],
                       movingIds |-> {dragElement.id},
                       candidates |-> IF snapToElements
                                      THEN SiblingBoundsForSnapping(elements, dragElement.id)
                                      ELSE << >>,
                       result |-> snapped ]
      /\ elements' = updateElement(elements, dragElement.id,
                                   [position |-> << newPosition.x, newPosition.y >>])

onMouseMove(mouseGameX, mouseGameY) ==
  /\ component = "single"
  /\ moves' = moves + 1
  /\ IF isDragging /\ dragElement # NullRec
     THEN DragTo(mouseGameX - dragOffset.x, mouseGameY - dragOffset.y)
     ELSE /\ snapGuides' = [vertical |-> << >>, horizontal |-> << >>]
          /\ UNCHANGED << snapCall, elements >>
  /\ UNCHANGED << selectedElementId, nextId, copiedElement, snapToElements,
                  selectedElementIds, component, isDragging, dragElement, dragOffset,
                  dragElementStartAbsolute, multiDragElements, ioVars, probeVars >>

onMouseUp ==
  /\ isDragging' = FALSE
  /\ dragElement' = IF isDragging THEN NullRec ELSE dragElement
  /\ multiDragElements' = IF isDragging THEN << >> ELSE multiDragElements
  /\ snapGuides' = [vertical |-> << >>, horizontal |-> << >>]
  /\ UNCHANGED << storeVars, component, dragOffset, dragElementStartAbsolute, snapCall,
                  moves, ioVars, probeVars >>

\* ---------------------------------------------------------------------
\* Pointer handlers of the multi-select canvas
\* ---------------------------------------------------------------------
\* selectElement of the multi-select service: the selection becomes this id
selectElementMulti(elementId) == << elementId >>

RECURSIVE BuildDragEntries(_, _, _, _)
\* the `for (const id of idsToInclude)` loop of onElementMouseDown
BuildDragEntries(elems, ids, seenIds, acc) ==
  IF ids = << >> THEN acc
  ELSE IF Head(ids) = NoId \/ Head(ids) \in seenIds
  THEN BuildDragEntries(elems, Tail(ids), seenIds, acc)
  ELSE The({ IF selectedElement = NullRec \/ selectedElement.locked
             THEN BuildDragEntries(elems, Tail(ids), seenIds \cup {Head(ids)}, acc)
             ELSE The({ BuildDragEntries(elems, Tail(ids), seenIds \cup {Head(ids)},
                          Append(acc, [ id |-> Head(ids), element |-> selectedElement,
                                        absoluteX |-> absolutePosition.x,
                                        absoluteY |-> absolutePosition.y ]))
                        : absolutePosition \in
                            { getAbsoluteGamePosition(elems, selectedElement) } })
             : selectedElement \in { findElementById(elems, Head(ids)) } })

\* the entries of a drag that starts on `element`: the selection's unlocked
\* elements, and the element itself when the selection does not hold it
DragEntries(elems, selectionIds, element, elementGamePosition) ==
  The({ IF \E i \in 1..Len(built) : built[i].id = element.id
        THEN built
        ELSE Append(built, [ id |-> element.id, element |-> element,
                             absoluteX |-> elementGamePosition.x,
                             absoluteY |-> elementGamePosition.y ])
        : built \in { BuildDragEntries(elems,
                        IF Len(selectionIds) > 0 THEN selectionIds ELSE << element.id >>,
                        {}, << >>) } })

\* multiDragElements.find(entry => entry.id === id)
FindDragEntry(entries, id) ==
  entries[Min({ i \in 1..Len(entries) : entries[i].id = id })]

onElementMouseDownMulti(elementId, mouseGameX, mouseGameY) ==
  \E reselect \in { \/ ~(\E i \in 1..Len(selectedElementIds) :
                            selectedElementIds[i] = elementId)
                    \/ (Len(selectedElementIds) <= 1 /\ selectedElementId # elementId) } :
  \E selectionIds \in { IF reselect THEN selectElementMulti(elementId)
                        ELSE selectedElementIds } :
  \E element \in { findElementById(elements, elementId) } :
    /\ component = "multi"
    /\ selectedElementIds' = selectionIds
    /\ selectedElementId' = IF reselect THEN elementId ELSE selectedElementId
    /\ moves' = moves + 1
    /\ IF element = NullRec \/ element.locked
       THEN UNCHANGED << isDragging, dragElement, dragOffset, dragElementStartAbsolute,
                         multiDragElements >>
       ELSE \E elementGamePosition \in { getAbsoluteGamePosition(elements, element) } :
            \E entries \in { DragEntries(elements, selectionIds, element,
                                         elementGamePosition) } :
            \E dragEntry \in { FindDragEntry(entries, elementId) } :
              /\ isDragging' = TRUE
              /\ dragElement' = element
              /\ multiDragElements' = entries
              /\ dragElementStartAbsolute' = [ x |-> dragEntry.absoluteX,
                                               y |-> dragEntry.absoluteY ]
              /\ dragOffset' = [ x |-> mouseGameX - elementGamePosition.x,
                                 y |-> mouseGameY - elementGamePosition.y ]
    /\ UNCHANGED << elements, nextId, copiedElement, snapToElements, component, snapGuides,
                    snapCall, ioVars, probeVars >>

\* one iteration of the `for (const entry of this.multiDragElements)` loop of
\* onMouseMove
MoveDragEntry(elems, entry, dragged, snappedPosition, delta) ==
  The({ IF targetElement = NullRec \/ targetElement.locked THEN elems
        ELSE The({ updateElement(elems, targetElement.id,
                     [position |-> << roundValue(newPosition.x, 2),
                                      roundValue(newPosition.y, 2) >>])
                   : newPosition \in
                       { calculateAnchorAdjustedPosition(elems,
                           IF entry.id = dragged.id THEN snappedPosition.x
                           ELSE entry.absoluteX + delta.x,
                           IF entry.id = dragged.id THEN snappedPosition.y
                           ELSE entry.absoluteY + delta.y,
                           targetElement) } })
        : targetElement \in { IF entry.id = dragged.id THEN dragged ELSE entry.element } })

RECURSIVE MoveDragEntries(_, _, _, _, _)
\* the loop: every updateElement is seen by the next iteration
MoveDragEntries(elems, entries, dragged, snappedPosition, delta) ==
  IF entries = << >> THEN elems
  ELSE MoveDragEntries(MoveDragEntry(elems, Head(entries), dragged, snappedPosition, delta),
                       Tail(entries), dragged, snappedPosition, delta)

\* the drag branch of the multi-select onMouseMove
DragToMulti(newElementGameX, newElementGameY) ==
  \E movingIds \in { IF Len(multiDragElements) > 1
                     THEN { multiDragElements[i].id : i \in 1..Len(multiDragElements) }
                     ELSE {} } :
  \E snapped \in { applySnappingMulti(elements, snapToElements, dragElement,
                                      newElementGameX, newElementGameY, movingIds) } :
    /\ snapGuides' = [vertical |-> snapped.vertical, horizontal |-> snapped.horizontal]
    /\ snapCall' = [ elementId |-> dragElement.id,
                     proposedX |-> newElementGameX, proposedY |-> newElementGameY,
                     width |-> dragElement.size[1], height |-> dragElement.size[2],
                     movingIds |-> { multiDragElements[i].id :
                                       i \in 1..Len(multiDragElements) },
                     candidates |-> IF snapToElements
                                    THEN SiblingBoundsForSnappingMulti(
                                           elements, dragElement.id, movingIds)
                                    ELSE << >>,
                     result |-> snapped ]
    /\ elements' = MoveDragEntries(elements, multiDragElements, dragElement,
                     [x |-> snapped.x, y |-> snapped.y],
                     [ x |-> snapped.x - dragElementStartAbsolute.x,
                       y |-> snapped.y - dragElementStartAbsolute.y ])

onMouseMoveMulti(mouseGameX, mouseGameY) ==
  /\ component = "multi"
  /\ moves' = moves + 1
  /\ IF isDragging /\ dragElement # NullRec /\ ~dragElement.locked
     THEN IF \E i \in 1..Len(multiDragElements) : multiDragElements[i].id = dragElement.id
          THEN DragToMulti(mouseGameX - dragOffset.x, mouseGameY - dragOffset.y)
          ELSE UNCHANGED << snapGuides, snapCall, elements >>
     ELSE /\ snapGuides' = IF isDragging THEN snapGuides
                           ELSE [vertical |-> << >>, horizontal |-> << >>]
          /\ UNCHANGED << snapCall, elements >>
  /\ UNCHANGED << selectedElementId, nextId, copiedElement, snapToElements,
                  selectedElementIds, component, isDragging, dragElement, dragOffset,
                  dragElementStartAbsolute, multiDragElements, ioVars, probeVars >>

\* toggleElementSelection of the multi-select service (ctrl-click): the id
\* leaves the selection when it is in it and joins it at the end otherwise
toggleElementSelection(elementId) ==
  LET isIn == \E i \in 1..Len(selectedElementIds) : selectedElementIds[i] = elementId
      next == IF isIn THEN SelectSeq(selectedElementIds, LAMBDA id : id # elementId)
              ELSE Append(selectedElementIds, elementId)
  IN /\ component = "multi"
     /\ ~isDragging
     /\ findElementById(elements, elementId) # NullRec
     /\ selectedElementIds' = next
     /\ selectedElementId' = IF next = << >> THEN NoId ELSE next[Len(next)]
     /\ moves' = moves + 1
     /\ UNCHANGED << elements, nextId, copiedElement, snapToElements, component, isDragging,
                     dragElement, dragOffset, dragElementStartAbsolute, multiDragElements,
                     snapGuides, snapCall, ioVars, probeVars >>

\* ---------------------------------------------------------------------
\* The anchor functions on drawn arguments
\* ---------------------------------------------------------------------
MaxProbeSize == 3

\* container and element sizes, with odd and fractional values
ProbeSizes == { Num(n) : n \in 1..MaxProbeSize } \cup { Num(2 * n + 1) \div 2 : n \in 1..MaxProbeSize }

ProbeContainers == { << CANVAS_WIDTH, CANVAS_HEIGHT >>, << Num(200), Num(300) >>,
                     << Num(75), Num(33) >> }

InitAnchor ==
  /\ FreshStore /\ FreshCanvas /\ FreshIo
  /\ probe \in [ anchor : Anchors, container : ProbeContainers,
                 size : ProbeSizes \X ProbeSizes ]
  /\ probeOut = NullRec

\* the box of an element with position (0,0): computeElementBounds' sum for
\* one element
PlaceAtAnchor ==
  LET anchorStart == getAnchorStartCoordinates(probe.anchor, probe.container[1],
                                               probe.container[2])
      anchorOffset == getAnchorOffset(probe.anchor, probe.size)
  IN /\ probeOut = NullRec
     /\ probeOut' = MkRect(anchorStart.x + anchorOffset.x + 0,
                           anchorStart.y + anchorOffset.y + 0,
                           probe.size[1], probe.size[2])
     /\ UNCHANGED << storeVars, canvasVars, ioVars, probe >>

NextAnchor == PlaceAtAnchor

SpecAnchor == InitAnchor /\ [][NextAnchor]_vars

\* ---------------------------------------------------------------------
\* The canvas on built trees
\* ---------------------------------------------------------------------
MaxMoves == 4

Container(id, position, size, anchor, locked, children) ==
  MkElement(id, "Container", "Container", position, size, anchor, locked, children)

Leaf(id, type, position, size, anchor, locked) ==
  MkElement(id, type, type, position, size, anchor, locked, << >>)

WithParent(e, parentId) == Spread(e, [parent |-> parentId])

\* two roots: a box over x in [0,100] and a 50-wide box away from every line
SceneRoots ==
  << Container(1, << 0, 0 >>, << Num(100), Num(50) >>, TopLeft, FALSE, << >>),
     Leaf(2, "Image", << Num(300), Num(200) >>, << Num(50), Num(50) >>, TopLeft, FALSE) >>

\* the tree of the bounds test of ui-builder.service.spec.ts, with two more
\* children, one of them locked
SceneNested ==
  << Container(1, << Num(100), Num(120) >>, << Num(200), Num(300) >>, TopLeft, FALSE,
       << WithParent(Leaf(2, "Text", << 0, 0 >>, << Num(50), Num(50) >>, Center, FALSE), 1),
          WithParent(Leaf(3, "Image", << 0, 0 >>, << Num(40), Num(40) >>, TopLeft, FALSE), 1),
          WithParent(Leaf(4, "Button", << Num(0 - 10), Num(0 - 10) >>,
                          << Num(30), Num(20) >>, BottomRight, TRUE), 1) >>) >>

\* a chain three deep with a different anchor at each level
SceneChain ==
  << Container(1, << Num(0 - 50), Num(0 - 60) >>, << Num(400), Num(300) >>, BottomRight, FALSE,
       << WithParent(
            Container(2, << Num(20), 0 >>, << Num(101), Num(100) >>, CenterLeft, FALSE,
              << WithParent(Leaf(3, "Text", << 0, Num(5) >>, << Num(31), Num(30) >>,
                                 TopCenter, FALSE), 2) >>), 1) >>),
     Leaf(4, "Image", << Num(7), Num(9) >>, << Num(60), Num(40) >>, BottomCenter, FALSE) >>

Scenes == { SceneRoots, SceneNested, SceneChain }

\* where in the element the pointer goes down
GrabOffsets == { << 0, 0 >>, << Num(10), Num(10) >> }

\* where the pointer moves the element's origin to, before the grab offset
Targets ==
  { << Num(8), Num(8) >>, << Num(8), Num(9) >>, << Num(104), Num(70) >>,
    << Num(92), Num(9) >>, << Num(109), Num(70) >>,
    << Num(250) + Num(1) \div 8, Num(70) + Num(1) \div 3 >>,
    << Num(177) + Num(1) \div 2, Num(70) >> }

InitCanvas ==
  /\ elements \in Scenes
  /\ selectedElementId = NoId
  /\ nextId = 5
  /\ copiedElement = NullRec
  /\ snapToElements \in BOOLEAN
  /\ selectedElementIds = << >>
  /\ component \in {"single", "multi"}
  /\ isDragging = FALSE
  /\ dragElement = NullRec
  /\ dragOffset = [x |-> 0, y |-> 0]
  /\ dragElementStartAbsolute = [x |-> 0, y |-> 0]
  /\ multiDragElements = << >>
  /\ snapGuides = [vertical |-> << >>, horizontal |-> << >>]
  /\ snapCall = NullRec
  /\ moves = 0
  /\ FreshIo /\ FreshProbe

\* pointer down on an element of the canvas, somewhere inside it
PointerDown ==
  \E id \in NodeIds(elements), grab \in GrabOffsets :
    LET at == getAbsoluteGamePosition(elements, findElementById(elements, id))
    IN /\ moves < MaxMoves
       /\ ~isDragging
       /\ \/ onElementMouseDown(id, at.x + grab[1], at.y + grab[2])
          \/ onElementMouseDownMulti(id, at.x + grab[1], at.y + grab[2])

PointerMove ==
  \E target \in Targets :
    /\ moves < MaxMoves
    /\ \/ onMouseMove(target[1] + dragOffset.x, target[2] + dragOffset.y)
       \/ onMouseMoveMulti(target[1] + dragOffset.x, target[2] + dragOffset.y)

PointerUp == onMouseUp

CtrlClick ==
  \E id \in NodeIds(elements) : moves < MaxMoves /\ toggleElementSelection(id)

NextCanvas == PointerDown \/ PointerMove \/ PointerUp \/ CtrlClick

SpecCanvas == InitCanvas /\ [][NextCanvas]_vars

\* ---------------------------------------------------------------------
\* Text
\* ---------------------------------------------------------------------
\* source[index], 1-based; "" past the end, where JavaScript gives undefined
At(s, i) == IF i >= 1 /\ i <= Len(s) THEN SubSeq(s, i, i) ELSE ""

\* s.slice(from), 1-based
From(s, from) == SubSeq(s, from, Len(s))

StartsWith(s, prefix) == Len(s) >= Len(prefix) /\ SubSeq(s, 1, Len(prefix)) = prefix

EndsWith(s, suffix) ==
  Len(s) >= Len(suffix) /\ SubSeq(s, Len(s) - Len(suffix) + 1, Len(s)) = suffix

\* while (!Done(st)) st = F(st), for a loop of at most n rounds
RECURSIVE Iterate(_, _, _, _)
Iterate(F(_), Done(_), st, n) ==
  IF Done(st) THEN st
  ELSE IF n <= 1 THEN F(st)
  ELSE The({ Iterate(F, Done, mid, n - (n \div 2))
             : mid \in { Iterate(F, Done, st, n \div 2) } })

\* the first index in from..to at which P holds, or to + 1
FirstIndex(P(_), from, to) ==
  IF \E j \in from..to : P(j)
  THEN CHOOSE j \in from..to : P(j) /\ \A k \in from..(j - 1) : ~P(k)
  ELSE to + 1

\* source.indexOf(needle, from), 1-based; 0 for JavaScript's -1
IndexOf(s, needle, from) ==
  The({ IF j > Len(s) - Len(needle) + 1 THEN 0 ELSE j
        : j \in { FirstIndex(LAMBDA i : At(s, i) = At(needle, 1)
                                          /\ SubSeq(s, i, i + Len(needle) - 1) = needle,
                             Max2(from, 1), Len(s) - Len(needle) + 1) } })

Digits == "0123456789"
UpperLetters == "ABCDEFGHIJKLMNOPQRSTUVWXYZ"
LowerLetters == "abcdefghijklmnopqrstuvwxyz"

CharsOf(s) == { SubSeq(s, i, i) : i \in 1..Len(s) }

isDigit(char) == char \in CharsOf(Digits)
IsLetter(char) == char \in CharsOf(UpperLetters) \cup CharsOf(LowerLetters)
isWhitespace(char) == char \in {" ", "\n", "\r", "\t"}
isIdentifierStart(char) == IsLetter(char) \/ char = "_"
isIdentifierPart(char) == IsLetter(char) \/ isDigit(char) \/ char \in {"_", "."}

\* the white space String.prototype.trim removes, of the characters in use
IsTrimmed(char) == char \in {" ", "\n", "\r", "\t", "\f"}

\* the last index at which s has a character that trim leaves, or 0
LastSolid(s) ==
  IF \A j \in 1..Len(s) : IsTrimmed(At(s, j)) THEN 0
  ELSE CHOOSE j \in 1..Len(s) :
         ~IsTrimmed(At(s, j)) /\ \A k \in (j + 1)..Len(s) : IsTrimmed(At(s, k))

TrimEnd(s) == SubSeq(s, 1, LastSolid(s))

Trim(s) ==
  SubSeq(s, FirstIndex(LAMBDA j : ~IsTrimmed(At(s, j)), 1, Len(s)), LastSolid(s))

DigitValue(char) == CHOOSE d \in 0..9 : At(Digits, d + 1) = char

toUpperCase(char) ==
  IF char \in CharsOf(LowerLetters)
  THEN At(UpperLetters, CHOOSE i \in 1..Len(LowerLetters) : At(LowerLetters, i) = char)
  ELSE char

toLowerCase(char) ==
  IF char \in CharsOf(UpperLetters)
  THEN At(LowerLetters, CHOOSE i \in 1..Len(UpperLetters) : At(UpperLetters, i) = char)
  ELSE char

RECURSIVE Concat(_, _, _)
\* parts[lo] + ... + parts[hi], halved so that few long strings are built
Concat(parts, lo, hi) ==
  IF lo > hi THEN ""
  ELSE IF lo = hi THEN parts[lo]
  ELSE Concat(parts, lo, (lo + hi) \div 2) \o Concat(parts, (lo + hi) \div 2 + 1, hi)

\* parts.join(separator)
Join(parts, separator) ==
  Concat([ i \in 1..(2 * Len(parts) - 1) |->
             IF i % 2 = 1 THEN parts[(i + 1) \div 2] ELSE separator ], 1, 2 * Len(parts) - 1)

\* s.split('\n')
SplitLines(s) ==
  LET breaks == { j \in 1..Len(s) : At(s, j) = "\n" } \cup { 0, Len(s) + 1 }
      starts == { j \in breaks : j <= Len(s) }
      ordered == [ k \in 1..Cardinality(starts) |->
                     CHOOSE j \in starts : Cardinality({ i \in starts : i < j }) = k - 1 ]
  IN [ k \in 1..Cardinality(starts) |->
         SubSeq(s, ordered[k] + 1, Min({ j \in breaks : j > ordered[k] }) - 1) ]

\* s.split(c).map(f).join(''), character by character
MapChars(F(_), s) == Concat([ i \in 1..Len(s) |-> F(At(s, i)) ], 1, Len(s))

\* '  '.repeat(n)
RECURSIVE Repeat(_, _)
Repeat(s, n) == IF n <= 0 THEN "" ELSE s \o Repeat(s, n - 1)

\* Number.prototype.toString of a whole number
RECURSIVE NatToString(_)
NatToString(n) ==
  IF n < 10 THEN At(Digits, n + 1)
  ELSE NatToString(n \div 10) \o At(Digits, (n % 10) + 1)

IntToString(n) == IF n < 0 THEN "-" \o NatToString(0 - n) ELSE NatToString(n)

\* ---------------------------------------------------------------------
\* Export: formatting (UiBuilderService)
\* ---------------------------------------------------------------------
\* JSON.stringify of one character of a string
JsonEscape(char) ==
  CASE char = "\"" -> "\\\""
    [] char = "\\" -> "\\\\"
    [] char = "\n" -> "\\n"
    [] char = "\r" -> "\\r"
    [] char = "\t" -> "\\t"
    [] char = "\f" -> "\\f"
    [] OTHER -> char

formatString(value) == "\"" \o MapChars(JsonEscape, value) \o "\""

formatBoolean(value) == IF value THEN "true" ELSE "false"

\* Number(text).toString() of a toFixed(FixedDigits) text: the trailing zeros go
RECURSIVE FractionToString(_, _)
FractionToString(fraction, width) ==
  IF fraction = 0 THEN ""
  ELSE At(Digits, (fraction \div Pow10(width - 1)) + 1)
         \o FractionToString(fraction % Pow10(width - 1), width - 1)

\* value.toFixed(FixedDigits) as a count of 10^-FixedDigits: to nearest, and a
\* value half way goes away from zero
ToFixedUnits(value) ==
  LET unit == Scale \div Pow10(FixedDigits)
      magnitude == (Abs(value) + (unit \div 2)) \div unit
  IN IF value < 0 THEN 0 - magnitude ELSE magnitude

\* Number.prototype.toString of a count of 10^-width
DecimalToString(units, width) ==
  (IF units < 0 THEN "-" ELSE "")
    \o NatToString(Abs(units) \div Pow10(width))
    \o (IF Abs(units) % Pow10(width) = 0 THEN ""
        ELSE "." \o FractionToString(Abs(units) % Pow10(width), width))

formatNumber(value) ==
  IF value % Scale = 0 THEN IntToString(value \div Scale)
  ELSE DecimalToString(ToFixedUnits(value), FixedDigits)

formatNumberArray(values) ==
  IF Len(values) = 0 THEN "[]"
  ELSE "[" \o Join([ i \in 1..Len(values) |-> formatNumber(values[i]) ], ", ") \o "]"

\* an enum member is its ordinal, a whole number
formatEnumValue(enumName, enumRef, value) ==
  IF value >= 0 /\ value < Len(enumRef)
  THEN "mod." \o enumName \o "." \o enumRef[value + 1]
  ELSE IntToString(value)

\* the own keys every object inherits, which `key in strings` also finds
ObjectPrototypeKeys ==
  { "constructor", "toString", "valueOf", "hasOwnProperty", "isPrototypeOf",
    "propertyIsEnumerable", "toLocaleString", "__proto__" }

getLocalizationKey(param, strings) ==
  The({ IF candidate # "" /\ candidate \in DOMAIN strings THEN candidate ELSE ""
        : candidate \in { Trim(param.name) } })

\* key.replace(' ', '_'): the first space only
ReplaceFirstSpace(key) ==
  The({ IF at = 0 THEN key
        ELSE SubSeq(key, 1, at - 1) \o "_" \o From(key, at + 1)
        : at \in { IndexOf(key, " ", 1) } })

\* every label a quoted literal
MutLabelAlwaysLiteral(param, strings) == formatString(param.textLabel)

formatTextLabel(param, strings) ==
  The({ IF key # "" THEN "mod.stringkeys." \o ReplaceFirstSpace(key)
        ELSE formatString(param.textLabel)
        : key \in { getLocalizationKey(param, strings) } })

RECURSIVE serializeElement(_)
serializeElement(element) ==
  [ f \in (DOMAIN element) \ {"id", "locked", "advancedMetadata"} |->
      IF f = "children"
      THEN [ i \in 1..Len(element.children) |-> serializeElement(element.children[i]) ]
      ELSE element[f] ]

\* strings[key] = text unless `key in strings`
PutString(strings, node) ==
  The({ IF node.type = "Text" /\ Len(text) > 0 /\ key \notin DOMAIN strings
           /\ key \notin ObjectPrototypeKeys
        THEN [ k \in (DOMAIN strings) \cup {key} |-> IF k = key THEN text ELSE strings[k] ]
        ELSE strings
        : text \in { Trim(node.textLabel) },
          key \in { IF node.name # "" THEN node.name ELSE "element_" \o IntToString(node.id) } })

RECURSIVE CollectFrom(_, _, _)
CollectFrom(nodes, i, strings) ==
  IF i > Len(nodes) THEN strings
  ELSE The({ CollectFrom(nodes, i + 1, after)
             : after \in { CollectFrom(nodes[i].children, 1, PutString(strings, nodes[i])) } })

collectTextStrings(elems) == CollectFrom(elems, 1, << >>)

\* ---------------------------------------------------------------------
\* Export: TypeScript code (UiBuilderService)
\* ---------------------------------------------------------------------
RECURSIVE PushAll(_, _, _)
\* target.push(...blocks[i], ..., ...blocks[n])
PushAll(target, blocks, i) ==
  IF i > Len(blocks) THEN target ELSE PushAll(target \o blocks[i], blocks, i + 1)

\* lines[lines.length - 1] = `${lines[lines.length - 1]},` when wanted
WithComma(lines, wanted) ==
  IF wanted THEN [ lines EXCEPT ![Len(lines)] = @ \o "," ] ELSE lines

TextLines(param, propIndent, strings) ==
  IF param.type # "Text" THEN << >>
  ELSE << propIndent \o "textLabel: " \o formatTextLabel(param, strings),
          propIndent \o "textColor: " \o formatNumberArray(param.textColor),
          propIndent \o "textAlpha: " \o formatNumber(param.textAlpha),
          propIndent \o "textSize: " \o formatNumber(param.textSize),
          propIndent \o "textAnchor: "
            \o formatEnumValue("UIAnchor", UIAnchorNames, param.textAnchor) >>

ImageLines(param, propIndent) ==
  IF param.type # "Image" THEN << >>
  ELSE << propIndent \o "imageType: "
            \o formatEnumValue("UIImageType", UIImageTypeNames, param.imageType),
          propIndent \o "imageColor: " \o formatNumberArray(param.imageColor),
          propIndent \o "imageAlpha: " \o formatNumber(param.imageAlpha) >>

\* the button lines of the combined form of an earlier export: the stored
\* flag for every node, and the state fields when it is set
MutButtonLinesFollowFlag(param, propIndent) ==
  << propIndent \o "buttonEnabled: " \o formatBoolean(param.buttonEnabled) >>
    \o (IF param.buttonEnabled
        THEN << propIndent \o "buttonColorBase: " \o formatNumberArray(param.buttonColorBase),
                propIndent \o "buttonAlphaBase: " \o formatNumber(param.buttonAlphaBase) >>
        ELSE << >>)

ButtonLines(param, propIndent) ==
  IF param.type # "Button" THEN << >>
  ELSE << propIndent \o "buttonEnabled: true",
          propIndent \o "buttonColorBase: " \o formatNumberArray(param.buttonColorBase),
          propIndent \o "buttonAlphaBase: " \o formatNumber(param.buttonAlphaBase),
          propIndent \o "buttonColorDisabled: " \o formatNumberArray(param.buttonColorDisabled),
          propIndent \o "buttonAlphaDisabled: " \o formatNumber(param.buttonAlphaDisabled),
          propIndent \o "buttonColorPressed: " \o formatNumberArray(param.buttonColorPressed),
          propIndent \o "buttonAlphaPressed: " \o formatNumber(param.buttonAlphaPressed),
          propIndent \o "buttonColorHover: " \o formatNumberArray(param.buttonColorHover),
          propIndent \o "buttonAlphaHover: " \o formatNumber(param.buttonAlphaHover),
          propIndent \o "buttonColorFocused: " \o formatNumberArray(param.buttonColorFocused),
          propIndent \o "buttonAlphaFocused: " \o formatNumber(param.buttonAlphaFocused) >>

\* the one-line property blocks, in the order they are pushed
PropertyLines(param, propIndent, strings) ==
  << propIndent \o "name: " \o formatString(param.name),
     propIndent \o "type: " \o formatString(param.type),
     propIndent \o "position: " \o formatNumberArray(param.position),
     propIndent \o "size: " \o formatNumberArray(param.size),
     propIndent \o "anchor: " \o formatEnumValue("UIAnchor", UIAnchorNames, param.anchor),
     propIndent \o "visible: " \o formatBoolean(param.visible),
     propIndent \o "padding: " \o formatNumber(param.padding),
     propIndent \o "bgColor: " \o formatNumberArray(param.bgColor),
     propIndent \o "bgAlpha: " \o formatNumber(param.bgAlpha),
     propIndent \o "bgFill: " \o formatEnumValue("UIBgFill", UIBgFillNames, param.bgFill) >>
    \o TextLines(param, propIndent, strings)
    \o ImageLines(param, propIndent)
    \o ButtonLines(param, propIndent)

\* lines of the object literal around its property blocks, a comma after
\* every block but the last
ObjectLines(indent, propertyBlocks) ==
  << indent \o "{" >>
    \o PushAll(<< >>, [ i \in 1..Len(propertyBlocks) |->
                          WithComma(propertyBlocks[i], i < Len(propertyBlocks)) ], 1)
    \o << indent \o "}" >>

RECURSIVE serializeParamToTypescript(_, _, _)
serializeParamToTypescript(param, indentLevel, strings) ==
  The({ Join(ObjectLines(Repeat("  ", indentLevel),
               [ i \in 1..Len(propertyLines) |-> << propertyLines[i] >> ]
                 \o (IF Len(param.children) = 0 THEN << >>
                     ELSE << << propIndent \o "children: [" >>
                               \o PushAll(<< >>,
                                    [ i \in 1..Len(param.children) |->
                                        WithComma(
                                          SplitLines(serializeParamToTypescript(
                                            param.children[i], indentLevel + 2, strings)),
                                          i < Len(param.children)) ], 1)
                               \o << propIndent \o "]" >> >>)), "\n")
        : propertyLines \in { PropertyLines(param, Repeat("  ", indentLevel + 1), strings) },
          propIndent \in { Repeat("  ", indentLevel + 1) } })

IsAlnum(char) == IsLetter(char) \/ isDigit(char)

\* label.replace(/[^A-Za-z0-9]+/g, ' ').trim().split(/\s+/): the maximal runs
\* of letters and digits, in order
AlnumParts(label) ==
  LET starts == { i \in 1..Len(label) : IsAlnum(At(label, i)) /\ ~IsAlnum(At(label, i - 1)) }
      nth(k) == CHOOSE i \in starts : Cardinality({ j \in starts : j < i }) = k - 1
      stop(i) == CHOOSE j \in i..Len(label) :
                   /\ ~IsAlnum(At(label, j + 1))
                   /\ \A k \in i..j : IsAlnum(At(label, k))
  IN [ k \in 1..Cardinality(starts) |-> SubSeq(label, nth(k), stop(nth(k))) ]

\* part.charAt(0).toUpperCase() + part.slice(1)
Capitalize(part) == toUpperCase(At(part, 1)) \o From(part, 2)

\* the base whether or not it is in use
MutFirstUnusedTakesBase(base, used) == base

\* the first of base, base2, base3, ... that is not in use
FirstUnused(base, used) ==
  IF base \notin used THEN base
  ELSE base \o IntToString(CHOOSE n \in 2..(Cardinality(used) + 2) :
                             /\ (base \o IntToString(n)) \notin used
                             /\ \A m \in 2..(n - 1) : (base \o IntToString(m)) \in used)

buildSnippetVariableName(label, used) ==
  LET parts == AlnumParts(label)
      lowered == [ i \in 1..Len(parts) |-> MapChars(toLowerCase, parts[i]) ]
      camelCased == Concat([ i \in 1..Len(parts) |->
                               IF i = 1 THEN lowered[i] ELSE Capitalize(lowered[i]) ],
                           1, Len(parts))
      named == IF camelCased = "" THEN "widget" ELSE camelCased
      started == IF isIdentifierStart(At(named, 1)) THEN named
                 ELSE "widget" \o Capitalize(named)
      suffixed == IF EndsWith(MapChars(toLowerCase, started), "widget") THEN started
                  ELSE started \o "Widget"
  IN FirstUnused(toLowerCase(At(suffixed, 1)) \o From(suffixed, 2), used)

\* new Date().toLocaleString() at the time of the export
SampleTimestamp == "11/5/2026, 9:30:00 AM"

ResolvedName(element, index) ==
  IF Trim(element.name) # "" THEN Trim(element.name) ELSE "Element " \o IntToString(index)

RECURSIVE SnippetNames(_, _, _, _)
\* the variable names of the roots from index i on, `used` taken by earlier ones
SnippetNames(elems, i, used, names) ==
  IF i > Len(elems) THEN names
  ELSE The({ SnippetNames(elems, i + 1, used \cup {name}, Append(names, name))
             : name \in { buildSnippetVariableName(ResolvedName(elems[i], i), used) } })

buildTypescriptSnippets(elems, params, strings, timestamp) ==
  The({ [ i \in 1..Len(elems) |->
            [ elementId |-> elems[i].id,
              name |-> ResolvedName(elems[i], i),
              variableName |-> names[i],
              code |-> Join(<< "// Auto-generated UI snippet (" \o ResolvedName(elems[i], i)
                                 \o ") " \o timestamp,
                               "const " \o names[i] \o " = modlib.ParseUI(",
                               serializeParamToTypescript(params[i], 1, strings),
                               ");",
                               "" >>, "\n") ] ]
        : names \in { SnippetNames(elems, 1, {}, << >>) } })

buildTypescriptCode(snippets) ==
  IF Len(snippets) = 0 THEN "// No UI elements defined"
  ELSE Join((IF Len(snippets) > 1
             THEN << "// " \o IntToString(Len(snippets)) \o " root containers exported" >>
             ELSE << >>)
              \o << "" >>
              \o PushAll(<< >>, [ i \in 1..Len(snippets) |->
                                    IF i < Len(snippets)
                                    THEN << TrimEnd(snippets[i].code), "" >>
                                    ELSE << TrimEnd(snippets[i].code) >> ], 1)
              \o << "" >>, "\n")

\* the artifacts the import and the claims read; the JSON texts and the
\* advanced preset classes are left out
ExportArtifacts(elems) ==
  The({ The({ [ params |-> params,
                strings |-> strings,
                typescriptSnippets |-> snippets,
                typescriptCode |-> buildTypescriptCode(snippets) ]
              : snippets \in { buildTypescriptSnippets(elems, params, strings, SampleTimestamp) } })
        : params \in { [ i \in 1..Len(elems) |-> serializeElement(elems[i]) ] },
          strings \in { collectTextStrings(elems) } })

\* ---------------------------------------------------------------------
\* Import: finding the modlib.ParseUI calls (UiBuilderService)
\* ---------------------------------------------------------------------
\* Indices into a text are 1-based here, one more than in the code; the
\* positions in the messages are the code's. A throw is a result whose
\* error is not "".
NoError == ""

\* the scanning loop without its comment branches: a slash is a character
\* like any other
MutExtractStepKeepsComments(source, st) ==
  The({ IF s.status # "scanning" THEN s
        ELSE IF s.index > Len(source) THEN [ s EXCEPT !.status = "unmatched" ]
        ELSE IF ~s.inString /\ char \in {"\"", "'"}
        THEN [ s EXCEPT !.inString = TRUE, !.stringQuote = char, !.escaped = FALSE,
                        !.payload = Append(@, char), !.index = @ + 1 ]
        ELSE IF s.inString
        THEN [ s EXCEPT !.payload = Append(@, char), !.index = @ + 1,
                        !.escaped = ~s.escaped /\ char = "\\",
                        !.inString = s.escaped \/ char = "\\" \/ char # s.stringQuote,
                        !.stringQuote = IF s.escaped \/ char = "\\" \/ char # s.stringQuote
                                        THEN @ ELSE "" ]
        ELSE IF char = "("
        THEN [ s EXCEPT !.depth = @ + 1, !.payload = Append(@, char), !.index = @ + 1 ]
        ELSE IF char = ")" /\ s.depth = 1
        THEN [ s EXCEPT !.depth = 0, !.status = "closed" ]
        ELSE IF char = ")"
        THEN [ s EXCEPT !.depth = @ - 1, !.payload = Append(@, char), !.index = @ + 1 ]
        ELSE [ s EXCEPT !.payload = Append(@, char), !.index = @ + 1 ]
        : s \in { st }, char \in { At(source, st.index) } })

\* one round of the scanning loop of extractNextParseUiPayload; payload is
\* the list of the characters kept so far
ExtractStep(source, st) ==
  The({ IF s.status # "scanning" THEN s
        ELSE IF s.index > Len(source) THEN [ s EXCEPT !.status = "unmatched" ]
        ELSE IF ~s.inString /\ char = "/" /\ nextChar = "/"
        THEN [ s EXCEPT !.index =
                 FirstIndex(LAMBDA j : At(source, j) \in {"\n", "\r"}, s.index + 2, Len(source)) ]
        ELSE IF ~s.inString /\ char = "/" /\ nextChar = "*"
        THEN [ s EXCEPT !.index =
                 The({ IF close > Len(source) THEN close ELSE close + 2
                       : close \in { FirstIndex(LAMBDA j : At(source, j) = "*"
                                                            /\ At(source, j + 1) = "/",
                                                s.index + 2, Len(source)) } }) ]
        ELSE IF ~s.inString /\ char \in {"\"", "'"}
        THEN [ s EXCEPT !.inString = TRUE, !.stringQuote = char, !.escaped = FALSE,
                        !.payload = Append(@, char), !.index = @ + 1 ]
        ELSE IF s.inString
        THEN [ s EXCEPT !.payload = Append(@, char), !.index = @ + 1,
                        !.escaped = ~s.escaped /\ char = "\\",
                        !.inString = s.escaped \/ char = "\\" \/ char # s.stringQuote,
                        !.stringQuote = IF s.escaped \/ char = "\\" \/ char # s.stringQuote
                                        THEN @ ELSE "" ]
        ELSE IF char = "("
        THEN [ s EXCEPT !.depth = @ + 1, !.payload = Append(@, char), !.index = @ + 1 ]
        ELSE IF char = ")" /\ s.depth = 1
        THEN [ s EXCEPT !.depth = 0, !.status = "closed" ]
        ELSE IF char = ")"
        THEN [ s EXCEPT !.depth = @ - 1, !.payload = Append(@, char), !.index = @ + 1 ]
        ELSE [ s EXCEPT !.payload = Append(@, char), !.index = @ + 1 ]
        : s \in { st }, char \in { At(source, st.index) }, nextChar \in { At(source, st.index + 1) } })

NoPayload == [ found |-> FALSE, payload |-> "", nextIndex |-> 0, error |-> NoError ]

extractNextParseUiPayload(source, startSearchIndex) ==
  The({ IF callIndex = 0 THEN NoPayload
        ELSE The({ IF openIndex = 0
                   THEN [ NoPayload EXCEPT !.error =
                            "The modlib.ParseUI call is missing its opening parenthesis." ]
                   ELSE The({ IF end.status = "closed"
                              THEN [ found |-> TRUE,
                                     payload |-> Trim(Concat(end.payload, 1, Len(end.payload))),
                                     nextIndex |-> end.index + 1,
                                     error |-> NoError ]
                              ELSE [ NoPayload EXCEPT !.error =
                                       "The modlib.ParseUI call appears to have unmatched parentheses." ]
                              : end \in { Iterate(LAMBDA s : ExtractStep(source, s),
                                                  LAMBDA s : s.status # "scanning",
                                                  [ index |-> openIndex + 1, depth |-> 1,
                                                    payload |-> << >>, inString |-> FALSE,
                                                    stringQuote |-> "", escaped |-> FALSE,
                                                    status |-> "scanning" ],
                                                  Len(source) - openIndex + 1) } })
                   : openIndex \in { IndexOf(source, "(", callIndex + Len("modlib.ParseUI")) } })
        : callIndex \in { IndexOf(source, "modlib.ParseUI", startSearchIndex) } })

RECURSIVE ExtractFrom(_, _, _)
\* the loop of extractParseUiPayloads from searchIndex on
ExtractFrom(source, searchIndex, payloads) ==
  IF searchIndex > Len(source) THEN [ payloads |-> payloads, error |-> NoError ]
  ELSE The({ IF result.error # NoError THEN [ payloads |-> << >>, error |-> result.error ]
             ELSE IF ~result.found THEN [ payloads |-> payloads, error |-> NoError ]
             ELSE ExtractFrom(source, result.nextIndex, Append(payloads, result.payload))
             : result \in { extractNextParseUiPayload(source, searchIndex) } })

\* no payload, no complaint
MutExtractNoThrow(source) == ExtractFrom(source, 1, << >>)

extractParseUiPayloads(source) ==
  The({ IF r.error = NoError /\ Len(r.payloads) = 0
        THEN [ payloads |-> << >>,
               error |-> "Could not find a modlib.ParseUI call in the provided code." ]
        ELSE r
        : r \in { ExtractFrom(source, 1, << >>) } })

\* ---------------------------------------------------------------------
\* Import: tokens (UiBuilderService.tokenizeParseUiPayload)
\* ---------------------------------------------------------------------
\* the character an escape stands for in readString
Unescape(char) ==
  CASE char = "n" -> "\n"
    [] char = "r" -> "\r"
    [] char = "t" -> "\t"
    [] OTHER -> char

\* one round of the loop of readString
ReadStringStep(payload, quote, st) ==
  The({ IF s.status # "reading" THEN s
        ELSE IF s.i > Len(payload) THEN [ s EXCEPT !.status = "unterminated" ]
        ELSE IF s.escaped
        THEN [ s EXCEPT !.result = @ \o Unescape(char), !.escaped = FALSE, !.i = @ + 1 ]
        ELSE IF char = "\\" THEN [ s EXCEPT !.escaped = TRUE, !.i = @ + 1 ]
        ELSE IF char = quote THEN [ s EXCEPT !.status = "closed", !.i = @ + 1 ]
        ELSE [ s EXCEPT !.result = @ \o char, !.i = @ + 1 ]
        : s \in { st }, char \in { At(payload, st.i) } })

readString(payload, start) ==
  The({ IF end.status = "closed"
        THEN [ value |-> end.result, nextIndex |-> end.i, error |-> NoError ]
        ELSE [ value |-> "", nextIndex |-> 0,
               error |-> "Unterminated string literal starting at position "
                           \o IntToString(start - 1) \o "." ]
        : end \in { Iterate(LAMBDA s : ReadStringStep(payload, At(payload, start), s),
                            LAMBDA s : s.status # "reading",
                            [ i |-> start + 1, result |-> "", escaped |-> FALSE,
                              status |-> "reading" ],
                            Len(payload) - start + 1) } })

RECURSIVE DigitsToNat(_)
DigitsToNat(digits) ==
  IF digits = "" THEN 0
  ELSE 10 * DigitsToNat(SubSeq(digits, 1, Len(digits) - 1)) + DigitValue(At(digits, Len(digits)))

\* Number(raw) of a literal -?digits*(.digits*)?, to the 10^-(FixedDigits+1)
\* the numbers here are kept to
ToNumber(negative, whole, fraction) ==
  LET kept == SubSeq(fraction, 1, Min2(Len(fraction), FixedDigits + 1))
      magnitude == DigitsToNat(whole) * Scale
                     + DigitsToNat(kept) * Pow10(FixedDigits + 1 - Len(kept))
  IN IF negative THEN 0 - magnitude ELSE magnitude

readNumber(payload, start) ==
  The({ The({ The({ IF wholeEnd = digitsFrom /\ fractionEnd <= wholeEnd + 1
                    THEN [ value |-> 0, nextIndex |-> 0,
                           error |-> "Invalid number literal at position "
                                       \o IntToString(start - 1) \o "." ]
                    ELSE [ value |-> ToNumber(digitsFrom > start,
                                              SubSeq(payload, digitsFrom, wholeEnd - 1),
                                              SubSeq(payload, wholeEnd + 1, fractionEnd - 1)),
                           nextIndex |-> fractionEnd,
                           error |-> NoError ]
                    : fractionEnd \in
                        { IF At(payload, wholeEnd) = "."
                          THEN FirstIndex(LAMBDA j : ~isDigit(At(payload, j)),
                                          wholeEnd + 1, Len(payload))
                          ELSE wholeEnd } })
              : wholeEnd \in { FirstIndex(LAMBDA j : ~isDigit(At(payload, j)),
                                          digitsFrom, Len(payload)) } })
        : digitsFrom \in { IF At(payload, start) = "-" THEN start + 1 ELSE start } })

\* an identifier read without moving on
MutReadIdentifierStalls(payload, start) == [ value |-> "", nextIndex |-> start ]

readIdentifier(payload, start) ==
  The({ [ value |-> SubSeq(payload, start, end - 1), nextIndex |-> end ]
        : end \in { FirstIndex(LAMBDA j : ~isIdentifierPart(At(payload, j)),
                               start, Len(payload)) } })

\* a token; text is the value of a string or identifier, number that of a number
Token(type, text, number, raw, position) ==
  [ type |-> type, text |-> text, number |-> number, raw |-> raw, position |-> position ]

PunctuationType(char) ==
  CASE char = "{" -> "braceOpen"
    [] char = "}" -> "braceClose"
    [] char = "[" -> "bracketOpen"
    [] char = "]" -> "bracketClose"
    [] char = ":" -> "colon"
    [] char = "," -> "comma"

\* one round of the loop of tokenizeParseUiPayload
TokenizeStep(payload, st) ==
  The({ IF s.error # NoError \/ s.index > Len(payload) THEN s
        ELSE IF isWhitespace(char) THEN [ s EXCEPT !.index = @ + 1 ]
        ELSE IF char \in {"{", "}", "[", "]", ":", ","}
        THEN [ s EXCEPT !.tokens = Append(@, Token(PunctuationType(char), "", 0, "", s.index - 1)),
                        !.index = @ + 1 ]
        ELSE IF char \in {"\"", "'"}
        THEN The({ IF r.error # NoError THEN [ s EXCEPT !.error = r.error ]
                   ELSE [ s EXCEPT !.tokens = Append(@, Token("string", r.value, 0,
                                                         SubSeq(payload, s.index, r.nextIndex - 1),
                                                         s.index - 1)),
                                   !.index = r.nextIndex ]
                   : r \in { readString(payload, s.index) } })
        ELSE IF char = "-" \/ isDigit(char)
        THEN The({ IF r.error # NoError THEN [ s EXCEPT !.error = r.error ]
                   ELSE [ s EXCEPT !.tokens = Append(@, Token("number", "", r.value,
                                                         SubSeq(payload, s.index, r.nextIndex - 1),
                                                         s.index - 1)),
                                   !.index = r.nextIndex ]
                   : r \in { readNumber(payload, s.index) } })
        ELSE IF isIdentifierStart(char)
        THEN The({ [ s EXCEPT !.tokens = Append(@, Token("identifier", r.value, 0, r.value, s.index - 1)),
                              !.index = r.nextIndex ]
                   : r \in { readIdentifier(payload, s.index) } })
        ELSE [ s EXCEPT !.error = "Unexpected character '" \o char \o "' at position "
                                    \o IntToString(s.index - 1)
                                    \o " while parsing modlib.ParseUI payload." ]
        : s \in { st }, char \in { At(payload, st.index) } })

tokenizeParseUiPayload(payload) ==
  The({ [ tokens |-> IF end.error = NoError THEN end.tokens ELSE << >>, error |-> end.error ]
        : end \in { Iterate(LAMBDA s : TokenizeStep(payload, s),
                            LAMBDA s : s.error # NoError \/ s.index > Len(payload),
                            [ index |-> 1, tokens |-> << >>, error |-> NoError ],
                            Len(payload)) } })

\* ---------------------------------------------------------------------
\* Import: values (UiBuilderService.parseTokensToParams)
\* ---------------------------------------------------------------------
\* A JavaScript value carries its type; an object's props is a function of
\* its keys, a number's value is in units of 1/Scale.
JsString(value) == [ type |-> "string", value |-> value ]
JsNumber(value) == [ type |-> "number", value |-> value ]
JsBoolean(value) == [ type |-> "boolean", value |-> value ]
JsNull == [ type |-> "null" ]
JsUndefined == [ type |-> "undefined" ]
JsArray(items) == [ type |-> "array", items |-> items ]
JsObject(props) == [ type |-> "object", props |-> props ]

Thrown(message) == [ error |-> message, value |-> JsUndefined ]
Returned(value) == [ error |-> NoError, value |-> value ]

\* a lookup that gives the first member for a name the enum does not have
MutLookupUnknownIsFirst(enumName, enumRef, key) ==
  IF key = "" THEN Thrown("Missing " \o enumName \o " member name in ParseUI import.")
  ELSE Returned(JsNumber(Num(Max2(EnumOrdinal(enumRef, key), 0))))

lookupEnumValue(enumName, enumRef, key) ==
  IF key = "" THEN Thrown("Missing " \o enumName \o " member name in ParseUI import.")
  ELSE IF EnumOrdinal(enumRef, key) < 0
  THEN Thrown("Unknown " \o enumName \o " member '" \o key \o "' in ParseUI import.")
  ELSE Returned(JsNumber(Num(EnumOrdinal(enumRef, key))))

resolveIdentifierToken(identifier) ==
  IF identifier = "true" THEN Returned(JsBoolean(TRUE))
  ELSE IF identifier = "false" THEN Returned(JsBoolean(FALSE))
  ELSE IF identifier = "null" THEN Returned(JsNull)
  ELSE IF StartsWith(identifier, "mod.UIAnchor.")
  THEN lookupEnumValue("UIAnchor", UIAnchorNames, From(identifier, Len("mod.UIAnchor.") + 1))
  ELSE IF StartsWith(identifier, "mod.UIBgFill.")
  THEN lookupEnumValue("UIBgFill", UIBgFillNames, From(identifier, Len("mod.UIBgFill.") + 1))
  ELSE IF StartsWith(identifier, "mod.UIImageType.")
  THEN lookupEnumValue("UIImageType", UIImageTypeNames,
                       From(identifier, Len("mod.UIImageType.") + 1))
  ELSE IF StartsWith(identifier, "mod.stringkeys.") THEN Returned(JsString(identifier))
  ELSE IF identifier = "undefined" THEN Returned(JsUndefined)
  ELSE IF StartsWith(identifier, "mod.")
  THEN Thrown("Unsupported identifier '" \o identifier \o "' encountered during ParseUI import.")
  ELSE Returned(JsString(identifier))

\* JSON.stringify(token)
TokenJson(token) ==
  "{\"type\":" \o formatString(token.type)
    \o (IF token.type \in {"string", "identifier"} THEN ",\"value\":" \o formatString(token.text)
        ELSE IF token.type = "number"
        THEN ",\"value\":" \o DecimalToString(token.number, FixedDigits + 1)
        ELSE "")
    \o (IF token.type \in {"string", "identifier", "number"}
        THEN ",\"raw\":" \o formatString(token.raw) ELSE "")
    \o ",\"position\":" \o IntToString(token.position) \o "}"

\* the literal being read: its kind, what it holds so far, the key awaiting
\* its value, and whether a comma must come next
Frame(kind) ==
  [ kind |-> kind, props |-> << >>, items |-> << >>, key |-> "", expectComma |-> FALSE ]

Fail(st, message) == [ st EXCEPT !.error = message ]

Yield(st, value) == [ st EXCEPT !.hasValue = TRUE, !.value = value ]

\* parseValue up to the point where it returns, throws or enters a literal
parseValue(tokens, st) ==
  The({ IF s.index > Len(tokens) THEN Fail(s, "Unexpected end of ParseUI payload.")
        ELSE The({ IF token.type = "braceOpen"
                   THEN [ s EXCEPT !.index = @ + 1, !.stack = Append(@, Frame("object")) ]
                   ELSE IF token.type = "bracketOpen"
                   THEN [ s EXCEPT !.index = @ + 1, !.stack = Append(@, Frame("array")) ]
                   ELSE IF token.type = "string"
                   THEN Yield([ s EXCEPT !.index = @ + 1 ], JsString(token.text))
                   ELSE IF token.type = "number"
                   THEN Yield([ s EXCEPT !.index = @ + 1 ], JsNumber(token.number))
                   ELSE IF token.type = "identifier"
                   THEN The({ IF r.error # NoError THEN Fail(s, r.error)
                              ELSE Yield([ s EXCEPT !.index = @ + 1 ], r.value)
                              : r \in { resolveIdentifierToken(token.text) } })
                   ELSE Fail(s, "Unsupported token type " \o token.type \o " encountered.")
                   : token \in { tokens[s.index] } })
        : s \in { st } })

Top(stack) == stack[Len(stack)]

Pop(stack) == SubSeq(stack, 1, Len(stack) - 1)

TypeAt(tokens, i) == IF i >= 1 /\ i <= Len(tokens) THEN tokens[i].type ELSE "none"

ExpectedMessage(type) ==
  "Unexpected token while parsing ParseUI payload. Expected " \o type \o "."

\* result[key] = value
PutProp(props, key, value) ==
  [ k \in (DOMAIN props) \cup {key} |-> IF k = key THEN value ELSE props[k] ]

\* one round of the loop of parseObject, up to where its parseValue returns,
\* throws or enters a literal
ObjectRound(tokens, st) ==
  The({ IF next = "none" THEN Fail(s, "Unterminated object literal in ParseUI payload.")
        ELSE IF next = "braceClose"
        THEN Yield([ s EXCEPT !.index = @ + 1, !.stack = Pop(@) ], JsObject(frame.props))
        ELSE IF frame.expectComma /\ next # "comma"
        THEN Fail(s, "Missing comma between object properties in ParseUI payload. "
                       \o TokenJson(tokens[s.index]))
        ELSE The({ IF TypeAt(tokens, keyAt) # "identifier" THEN Fail(s, ExpectedMessage("identifier"))
                   ELSE IF TypeAt(tokens, keyAt + 1) # "colon" THEN Fail(s, ExpectedMessage("colon"))
                   ELSE parseValue(tokens,
                          [ s EXCEPT !.index = keyAt + 2,
                                     !.stack[Len(s.stack)].key = tokens[keyAt].text ])
                   : keyAt \in { IF frame.expectComma THEN s.index + 1 ELSE s.index } })
        : s \in { st }, frame \in { Top(st.stack) }, next \in { TypeAt(tokens, st.index) } })

\* one round of the loop of parseArray
ArrayRound(tokens, st) ==
  The({ IF next = "none" THEN Fail(s, "Unterminated array literal in ParseUI payload.")
        ELSE IF next = "bracketClose"
        THEN Yield([ s EXCEPT !.index = @ + 1, !.stack = Pop(@) ], JsArray(frame.items))
        ELSE IF frame.expectComma /\ next # "comma"
        THEN Fail(s, "Missing comma between array items in ParseUI payload. "
                       \o TokenJson(tokens[s.index]))
        ELSE parseValue(tokens,
               [ s EXCEPT !.index = IF frame.expectComma THEN @ + 1 ELSE @ ])
        : s \in { st }, frame \in { Top(st.stack) }, next \in { TypeAt(tokens, st.index) } })

\* the value parseValue returned goes to the literal being read, or, outside
\* any literal, to the results
Deliver(tokens, st) ==
  The({ IF Len(s.stack) = 0
        THEN IF s.value.type # "object"
             THEN Fail(s, "modlib.ParseUI arguments must be object literals.")
             ELSE IF TypeAt(tokens, s.index) = "none"
             THEN [ s EXCEPT !.results = Append(@, s.value), !.hasValue = FALSE, !.done = TRUE ]
             ELSE IF TypeAt(tokens, s.index) = "comma"
             THEN [ s EXCEPT !.results = Append(@, s.value), !.hasValue = FALSE,
                             !.index = @ + 1 ]
             ELSE Fail(s, "Expected a comma between modlib.ParseUI arguments.")
        ELSE IF Top(s.stack).kind = "object"
        THEN [ s EXCEPT !.hasValue = FALSE,
                        !.stack[Len(s.stack)].props = PutProp(@, Top(s.stack).key, s.value),
                        !.stack[Len(s.stack)].expectComma = TRUE ]
        ELSE [ s EXCEPT !.hasValue = FALSE,
                        !.stack[Len(s.stack)].items = Append(@, s.value),
                        !.stack[Len(s.stack)].expectComma = TRUE ]
        : s \in { st } })

ParseStep(tokens, st) ==
  IF st.error # NoError \/ st.done THEN st
  ELSE IF st.hasValue THEN Deliver(tokens, st)
  ELSE IF Len(st.stack) = 0
  THEN IF st.index > Len(tokens) THEN [ st EXCEPT !.done = TRUE ] ELSE parseValue(tokens, st)
  ELSE IF Top(st.stack).kind = "object" THEN ObjectRound(tokens, st)
  ELSE ArrayRound(tokens, st)

parseTokensToParams(tokens) ==
  The({ [ results |-> IF end.error = NoError THEN end.results ELSE << >>, error |-> end.error ]
        : end \in { Iterate(LAMBDA s : The({ ParseStep(tokens, bound) : bound \in { s } }),
                            LAMBDA s : s.error # NoError \/ s.done,
                            [ index |-> 1, stack |-> << >>, results |-> << >>,
                              hasValue |-> FALSE, value |-> JsUndefined,
                              error |-> NoError, done |-> FALSE ],
                            2 * Len(tokens) + 2) } })

\* ---------------------------------------------------------------------
\* Import: from values to elements (UiBuilderService)
\* ---------------------------------------------------------------------
\* node[key]
Prop(node, key) ==
  IF node.type = "object" /\ key \in DOMAIN node.props THEN node.props[key] ELSE JsUndefined

\* [...values]: a number is its value, anything else stays the value it is
Items(values) ==
  [ i \in 1..Len(values.items) |->
      IF values.items[i].type = "number" THEN values.items[i].value ELSE values.items[i] ]

cloneVectorWithFallback(values, fallback) ==
  IF values.type = "array" /\ Len(values.items) > 0 THEN Items(values) ELSE fallback

ensureNumber(value, fallback) == IF value.type = "number" THEN value.value ELSE fallback

ensureElementType(value) ==
  IF value.type = "string" /\ value.value \in UIElementTypes THEN value.value ELSE "Container"

ensureString(value) ==
  IF value.type = "string" /\ Len(value.value) > 0 THEN value.value ELSE "ImportedElement"

ensureBoolean(value, fallback) == IF value.type = "boolean" THEN value.value ELSE fallback

ensureEnumNumber(value, enumRef, fallback) ==
  IF value.type = "number" /\ value.value % Scale = 0
       /\ value.value \div Scale \in 0..(Len(enumRef) - 1)
  THEN value.value \div Scale
  ELSE IF value.type = "string" /\ EnumOrdinal(enumRef, value.value) >= 0
  THEN EnumOrdinal(enumRef, value.value)
  ELSE fallback

\* the fields of a normalized node other than its children
NormalizedFields(node) ==
  [ parent |-> NoId,
    name |-> ensureString(Prop(node, "name")),
    type |-> ensureElementType(Prop(node, "type")),
    position |-> cloneVectorWithFallback(Prop(node, "position"), DEFAULT_UI_PARAMS.position),
    size |-> cloneVectorWithFallback(Prop(node, "size"), DEFAULT_UI_PARAMS.size),
    anchor |-> ensureEnumNumber(Prop(node, "anchor"), UIAnchorNames, DEFAULT_UI_PARAMS.anchor),
    visible |-> ensureBoolean(Prop(node, "visible"), DEFAULT_UI_PARAMS.visible),
    textLabel |-> IF Prop(node, "textLabel").type = "string"
                  THEN Prop(node, "textLabel").value ELSE DEFAULT_UI_PARAMS.textLabel,
    textColor |-> cloneVectorWithFallback(Prop(node, "textColor"), DEFAULT_UI_PARAMS.textColor),
    textAlpha |-> ensureNumber(Prop(node, "textAlpha"), DEFAULT_UI_PARAMS.textAlpha),
    textSize |-> ensureNumber(Prop(node, "textSize"), DEFAULT_UI_PARAMS.textSize),
    textAnchor |-> ensureEnumNumber(Prop(node, "textAnchor"), UIAnchorNames,
                                    DEFAULT_UI_PARAMS.textAnchor),
    padding |-> ensureNumber(Prop(node, "padding"), DEFAULT_UI_PARAMS.padding),
    bgColor |-> cloneVectorWithFallback(Prop(node, "bgColor"), DEFAULT_UI_PARAMS.bgColor),
    bgAlpha |-> ensureNumber(Prop(node, "bgAlpha"), DEFAULT_UI_PARAMS.bgAlpha),
    bgFill |-> ensureEnumNumber(Prop(node, "bgFill"), UIBgFillNames, DEFAULT_UI_PARAMS.bgFill),
    imageType |-> ensureEnumNumber(Prop(node, "imageType"), UIImageTypeNames,
                                   DEFAULT_UI_PARAMS.imageType),
    imageColor |-> cloneVectorWithFallback(Prop(node, "imageColor"), DEFAULT_UI_PARAMS.imageColor),
    imageAlpha |-> ensureNumber(Prop(node, "imageAlpha"), DEFAULT_UI_PARAMS.imageAlpha),
    buttonEnabled |-> ensureBoolean(Prop(node, "buttonEnabled"), DEFAULT_UI_PARAMS.buttonEnabled),
    buttonColorBase |-> cloneVectorWithFallback(Prop(node, "buttonColorBase"),
                                                DEFAULT_UI_PARAMS.buttonColorBase),
    buttonAlphaBase |-> ensureNumber(Prop(node, "buttonAlphaBase"),
                                     DEFAULT_UI_PARAMS.buttonAlphaBase),
    buttonColorDisabled |-> cloneVectorWithFallback(Prop(node, "buttonColorDisabled"),
                                                    DEFAULT_UI_PARAMS.buttonColorDisabled),
    buttonAlphaDisabled |-> ensureNumber(Prop(node, "buttonAlphaDisabled"),
                                         DEFAULT_UI_PARAMS.buttonAlphaDisabled),
    buttonColorPressed |-> cloneVectorWithFallback(Prop(node, "buttonColorPressed"),
                                                   DEFAULT_UI_PARAMS.buttonColorPressed),
    buttonAlphaPressed |-> ensureNumber(Prop(node, "buttonAlphaPressed"),
                                        DEFAULT_UI_PARAMS.buttonAlphaPressed),
    buttonColorHover |-> cloneVectorWithFallback(Prop(node, "buttonColorHover"),
                                                 DEFAULT_UI_PARAMS.buttonColorHover),
    buttonAlphaHover |-> ensureNumber(Prop(node, "buttonAlphaHover"),
                                      DEFAULT_UI_PARAMS.buttonAlphaHover),
    buttonColorFocused |-> cloneVectorWithFallback(Prop(node, "buttonColorFocused"),
                                                   DEFAULT_UI_PARAMS.buttonColorFocused),
    buttonAlphaFocused |-> ensureNumber(Prop(node, "buttonAlphaFocused"),
                                        DEFAULT_UI_PARAMS.buttonAlphaFocused) ]

RECURSIVE normalizeParsedParam(_)
RECURSIVE NormalizeEach(_, _, _)
\* raws.map(normalizeParsedParam) from index i on; the first throw ends it
NormalizeEach(raws, i, params) ==
  IF i > Len(raws) THEN [ error |-> NoError, params |-> params ]
  ELSE The({ IF r.error # NoError THEN [ error |-> r.error, params |-> << >> ]
             ELSE NormalizeEach(raws, i + 1, Append(params, r.param))
             : r \in { normalizeParsedParam(raws[i]) } })

\* reading a property of null or undefined throws a TypeError
normalizeParsedParam(raw) ==
  IF raw.type \in {"null", "undefined"}
  THEN [ error |-> "Cannot read properties of " \o raw.type \o " (reading 'children')",
         param |-> NullRec ]
  ELSE The({ IF children.error # NoError THEN [ error |-> children.error, param |-> NullRec ]
             ELSE [ error |-> NoError,
                    param |-> Spread(NormalizedFields(raw), [ children |-> children.params ]) ]
             : children \in
                 { NormalizeEach(IF Prop(raw, "children").type = "array"
                                 THEN Prop(raw, "children").items ELSE << >>, 1, << >>) } })

RECURSIVE ParsePayloads(_, _, _)
\* the loop of parseParseUiTypescript over the payloads from index i on
ParsePayloads(payloads, i, normalized) ==
  IF i > Len(payloads) THEN [ error |-> NoError, params |-> normalized ]
  ELSE The({ IF lexed.error # NoError THEN [ error |-> lexed.error, params |-> << >> ]
             ELSE IF Len(lexed.tokens) = 0 THEN ParsePayloads(payloads, i + 1, normalized)
             ELSE The({ IF parsed.error # NoError
                        THEN [ error |-> parsed.error, params |-> << >> ]
                        ELSE The({ IF pushed.error # NoError
                                   THEN [ error |-> pushed.error, params |-> << >> ]
                                   ELSE ParsePayloads(payloads, i + 1, pushed.params)
                                   : pushed \in { NormalizeEach(parsed.results, 1, normalized) } })
                        : parsed \in { parseTokensToParams(lexed.tokens) } })
             : lexed \in { tokenizeParseUiPayload(payloads[i]) } })

parseParseUiTypescript(source) ==
  The({ IF extracted.error # NoError THEN [ error |-> extracted.error, params |-> << >> ]
        ELSE ParsePayloads(extracted.payloads, 1, << >>)
        : extracted \in { extractParseUiPayloads(source) } })

\* createUIElement for a name that is not empty; the id is generateId()'s
createUIElement(type, name, id) ==
  Spread(DEFAULT_UI_PARAMS,
         [ id |-> id, name |-> name, type |-> type, advancedMetadata |-> NullRec,
           children |-> << >> ])

\* cloneVectorWithFallback and ensureNumber on the fields of a parameter record
VectorOr(values, fallback) == IF Len(values) > 0 THEN values ELSE fallback

RECURSIVE buildElementFromParams(_, _, _)
RECURSIVE BuildEach(_, _, _, _, _)
\* params.map(param => buildElementFromParams(param, parentId)) from index i
\* on, `next` being the id counter
BuildEach(params, i, parentId, next, built) ==
  IF i > Len(params) THEN [ elements |-> built, nextId |-> next ]
  ELSE The({ BuildEach(params, i + 1, parentId, r.nextId, Append(built, r.element))
             : r \in { buildElementFromParams(params[i], parentId, next) } })

buildElementFromParams(param, parentId, next) ==
  The({ The({ [ element |->
                  Spread(base,
                    [ f \in (DOMAIN param) \cup {"advancedMetadata"} |->
                        IF f = "parent" THEN parentId
                        ELSE IF f = "advancedMetadata" THEN NullRec
                        ELSE IF f = "children" THEN children.elements
                        ELSE IF f \in {"position", "size", "textColor", "bgColor", "imageColor",
                                       "buttonColorBase", "buttonColorDisabled",
                                       "buttonColorPressed", "buttonColorHover",
                                       "buttonColorFocused"}
                        THEN VectorOr(param[f], base[f])
                        ELSE param[f] ]),
                nextId |-> children.nextId ]
              : children \in { BuildEach(param.children, 1, base.id, next + 1, << >>) } })
        : base \in { createUIElement(param.type, param.name, next) } })

restoreElementsFromParams(params, next) == BuildEach(params, 1, NoId, next, << >>)

\* the fields of the service an import reads and writes
Store(elems, selected, next, copied) ==
  [ elements |-> elems, selectedElementId |-> selected, nextId |-> next,
    copiedElement |-> copied ]

\* clear()
clear(store) == [ store EXCEPT !.elements = << >>, !.selectedElementId = NoId, !.nextId = 1 ]

ImportResult(success, importedCount, error) ==
  [ success |-> success, importedCount |-> importedCount, error |-> error ]

\* what importFromTypescript does once the text has been parsed
ApplyImport(params, mode, store) ==
  The({ IF Len(params) = 0 THEN [ store |-> cleared, result |-> ImportResult(TRUE, 0, NoError) ]
        ELSE The({ [ store |-> [ cleared EXCEPT
                                   !.elements = IF mode = "append"
                                                THEN cleared.elements \o restored.elements
                                                ELSE restored.elements,
                                   !.selectedElementId = NoId,
                                   !.nextId = restored.nextId ],
                     result |-> ImportResult(TRUE, Len(restored.elements), NoError) ]
                   : restored \in { restoreElementsFromParams(params, cleared.nextId) } })
        : cleared \in { IF mode = "append" THEN store
                        ELSE [ clear(store) EXCEPT !.copiedElement = NullRec ] } })

\* clear() moved in front of the parsing
MutImportClearsFirst(source, mode, store) ==
  IF Trim(source) = ""
  THEN [ store |-> store,
         result |-> ImportResult(FALSE, 0, "No TypeScript content provided.") ]
  ELSE The({ IF parsed.error # NoError
             THEN [ store |-> IF mode = "append" THEN store ELSE clear(store),
                    result |-> ImportResult(FALSE, 0, parsed.error) ]
             ELSE ApplyImport(parsed.params, mode, store)
             : parsed \in { parseParseUiTypescript(source) } })

\* the store after the call, and what the call returns
importFromTypescript(source, mode, store) ==
  IF Trim(source) = ""
  THEN [ store |-> store,
         result |-> ImportResult(FALSE, 0, "No TypeScript content provided.") ]
  ELSE The({ IF parsed.error # NoError
             THEN [ store |-> store, result |-> ImportResult(FALSE, 0, parsed.error) ]
             ELSE ApplyImport(parsed.params, mode, store)
             : parsed \in { parseParseUiTypescript(source) } })

\* ---------------------------------------------------------------------
\* Editing the tree (UiBuilderService)
\* ---------------------------------------------------------------------
\* results of generateRandomSuffix()
RandomSuffixes == { "k3x9q", "A7b2c" }

\* every element taken for one that can have children
MutAcceptsAnyParent(element) == TRUE

canElementAcceptChildren(element) == element = NullRec \/ element.type = "Container"

\* the store after addElement(type, name); suffix is what generateRandomSuffix
\* gives when the name is left out
addElement(store, type, name, suffix) ==
  The({ IF parent # NullRec /\ ~canElementAcceptChildren(parent) THEN store
        ELSE The({ [ store EXCEPT
                       !.elements = IF parent # NullRec
                                    THEN updateElementRecursive(@, parent.id, "addElement",
                                                                newElement)
                                    ELSE Append(@, newElement),
                       !.selectedElementId = newElement.id,
                       !.nextId = @ + 1 ]
                   : newElement \in { createUIElement(type,
                                        IF name # "" THEN name ELSE type \o "_" \o suffix,
                                        store.nextId) } })
        : parent \in { IF store.selectedElementId # NoId
                       THEN findElementById(store.elements, store.selectedElementId)
                       ELSE NullRec } })

\* a removal that takes a root out of the list and leaves its children in
\* its place
MutRemoveKeepsChildren(elems, targetId) ==
  IF \E i \in 1..Len(elems) : elems[i].id = targetId
  THEN The({ SubSeq(elems, 1, i - 1) \o elems[i].children \o SubSeq(elems, i + 1, Len(elems))
             : i \in { Min({ j \in 1..Len(elems) : elems[j].id = targetId }) } })
  ELSE elems

RECURSIVE removeElementRecursive(_, _)
removeElementRecursive(elems, targetId) ==
  The({ [ i \in 1..Len(kept) |->
            [ kept[i] EXCEPT !.children = removeElementRecursive(@, targetId) ] ]
        : kept \in { SelectSeq(elems, LAMBDA element : element.id # targetId) } })

removeElement(store, elementId) ==
  [ store EXCEPT !.elements = removeElementRecursive(@, elementId),
                 !.selectedElementId = IF @ = elementId THEN NoId ELSE @ ]

\* reordered.splice(index, 1) and reordered.splice(newIndex, 0, element), on
\* 1-based places
Spliced(elems, from, to) ==
  The({ SubSeq(without, 1, to - 1) \o << elems[from] >> \o SubSeq(without, to, Len(without))
        : without \in { SubSeq(elems, 1, from - 1) \o SubSeq(elems, from + 1, Len(elems)) } })

RECURSIVE moveElementRecursive(_, _, _)
moveElementRecursive(elems, elementId, offset) ==
  IF \E i \in 1..Len(elems) : elems[i].id = elementId
  THEN The({ IF index + offset < 1 \/ index + offset > Len(elems)
             THEN [ elements |-> elems, moved |-> FALSE ]
             ELSE [ elements |-> Spliced(elems, index, index + offset), moved |-> TRUE ]
             : index \in { Min({ i \in 1..Len(elems) : elems[i].id = elementId }) } })
  ELSE The({ IF \E i \in 1..Len(elems) : results[i].moved
             THEN The({ [ elements |-> [ elems EXCEPT ![first].children = results[first].elements ],
                          moved |-> TRUE ]
                        : first \in { Min({ i \in 1..Len(elems) : results[i].moved }) } })
             ELSE [ elements |-> elems, moved |-> FALSE ]
             : results \in { [ i \in 1..Len(elems) |->
                                 IF Len(elems[i].children) = 0
                                 THEN [ elements |-> << >>, moved |-> FALSE ]
                                 ELSE moveElementRecursive(elems[i].children, elementId, offset) ] } })

moveElement(store, elementId, direction) ==
  [ store EXCEPT !.elements =
      moveElementRecursive(@, elementId, IF direction = "up" THEN 0 - 1 ELSE 1).elements ]

\* collectElementNames(): the names in use, the empty one left out
collectElementNames(elems) ==
  { Flatten(elems)[i].name : i \in 1..Len(Flatten(elems)) } \ { "" }

\* the k-th candidate of generateDuplicateName
DuplicateCandidate(source, k) ==
  IF k = 1 THEN source \o "_Copy" ELSE source \o "_Copy" \o IntToString(k)

\* generateDuplicateName(baseName, existingNames): the first candidate that
\* is free; the caller adds it to existingNames
generateDuplicateName(baseName, existingNames) ==
  The({ DuplicateCandidate(source,
          Min({ k \in 1..(Cardinality(existingNames) + 1) :
                  DuplicateCandidate(source, k) \notin existingNames }))
        : source \in { IF Len(Trim(baseName)) > 0 THEN Trim(baseName) ELSE "Element" } })

\* a clone that keeps the identifiers of its source
MutCloneKeepsIds(element, existingNames, next) ==
  [ element |-> element, names |-> existingNames, nextId |-> next ]

RECURSIVE cloneElementWithNewIds(_, _, _)
\* cloneElementWithNewIds(element, existingNames), the counter being next:
\* a node takes its identifier and its name before its children take theirs
cloneElementWithNewIds(element, existingNames, next) ==
  The({ The({ [ element |-> [ element EXCEPT !.id = next, !.name = name,
                                             !.children = done.out ],
                names |-> done.names, nextId |-> done.nextId ]
              : done \in { Iterate(
                  LAMBDA st : The({ [ st EXCEPT !.out = Append(@, child.element),
                                                !.names = child.names,
                                                !.nextId = child.nextId ]
                                    : child \in { cloneElementWithNewIds(
                                        element.children[Len(st.out) + 1],
                                        st.names, st.nextId) } }),
                  LAMBDA st : Len(st.out) = Len(element.children),
                  [ out |-> << >>, names |-> existingNames \cup { name }, nextId |-> next + 1 ],
                  Len(element.children)) } })
        : name \in { generateDuplicateName(element.name, existingNames) } })

\* a snapshot that keeps the node and forgets what is below it
MutSnapshotDropsChildren(element) == [ element EXCEPT !.children = << >> ]

RECURSIVE cloneElementSnapshot(_)
cloneElementSnapshot(element) ==
  [ element EXCEPT !.children = [ i \in 1..Len(@) |-> cloneElementSnapshot(@[i]) ] ]

\* clampIndex(index, length), for the finite indices the callers pass
clampIndex(index, length) == Min2(Max2(index, 0), length)

\* insertCloneAtLocation(clone, parentId, insertIndex)
insertCloneAtLocation(store, clone, parentId, insertIndex) ==
  [ store EXCEPT
      !.elements =
        IF parentId = NoId \/ findElementById(store.elements, parentId) = NullRec
        THEN The({ SubSeq(@, 1, clamped) \o << clone >> \o SubSeq(@, clamped + 1, Len(@))
                   : clamped \in { clampIndex(insertIndex, Len(@)) } })
        ELSE The({ updateElementRecursive(@, parentId, "insertCloneAtLocation",
                     [ clone |-> clone,
                       index |-> clampIndex(insertIndex, Len(parent.children)) ])
                   : parent \in { findElementById(store.elements, parentId) } }),
      !.selectedElementId = clone.id ]

CopiedElement(snapshot, parentId, index, sourceId) ==
  [ snapshot |-> snapshot, parentId |-> parentId, index |-> index, sourceId |-> sourceId ]

copyElement(store, elementId) ==
  The({ IF original = NullRec THEN [ store EXCEPT !.copiedElement = NullRec ]
        ELSE The({ [ store EXCEPT !.copiedElement =
                       CopiedElement(cloneElementSnapshot(original), location.parentId,
                                     location.index, elementId) ]
                   : location \in { getElementLocation(store.elements, elementId) } })
        : original \in { findElementById(store.elements, elementId) } })

\* the store once the clone of a subtree has been made and put after place
\* index of the children of parentId
InsertClone(store, source, parentId, index) ==
  The({ insertCloneAtLocation([ store EXCEPT !.nextId = made.nextId ],
                              made.element, parentId, index + 1)
        : made \in { cloneElementWithNewIds(source, collectElementNames(store.elements),
                                            store.nextId) } })

\* a ?? b on identifiers, null being NoId
OrElse(a, b) == IF a = NoId THEN b ELSE a

\* the parent and the place pasteCopiedElement starts from
PasteLocation(store) ==
  The({ IF sourceLocation = NullRec
        THEN [ parentId |-> store.copiedElement.parentId,
               index |-> store.copiedElement.index ]
        ELSE [ parentId |-> OrElse(sourceLocation.parentId, store.copiedElement.parentId),
               index |-> sourceLocation.index ]
        : sourceLocation \in { getElementLocation(store.elements,
                                                  store.copiedElement.sourceId) } })

pasteCopiedElement(store) ==
  IF store.copiedElement = NullRec THEN store
  ELSE The({ The({ The({ [ inserted EXCEPT !.copiedElement =
                             CopiedElement(cloneElementSnapshot(store.copiedElement.snapshot),
                                           OrElse(location.parentId, parentId),
                                           location.index, inserted.selectedElementId) ]
                         : location \in { getElementLocation(inserted.elements,
                                                             inserted.selectedElementId) } })
                   : inserted \in { InsertClone(store, store.copiedElement.snapshot,
                                                parentId, PasteLocation(store).index) } })
             : parentId \in { IF PasteLocation(store).parentId # NoId
                                 /\ findElementById(store.elements,
                                                    PasteLocation(store).parentId) = NullRec
                              THEN NoId ELSE PasteLocation(store).parentId } })

duplicateElement(store, elementId) ==
  IF findElementById(store.elements, elementId) = NullRec THEN store
  ELSE The({ InsertClone(store, findElementById(store.elements, elementId),
                         location.parentId, location.index)
             : location \in { getElementLocation(store.elements, elementId) } })

selectElement(store, elementId) == [ store EXCEPT !.selectedElementId = elementId ]

\* ---------------------------------------------------------------------
\* Export and import of a store
\* ---------------------------------------------------------------------
MaxCalls == 2

ImportModes == {"replace", "append"}

\* generateExportArtifacts(); `exported` keeps the tree the artifacts are of
Export ==
  /\ calls < MaxCalls
  /\ artifacts' = Spread(ExportArtifacts(elements), [ exported |-> elements ])
  /\ lastCall' = [ op |-> "generateExportArtifacts" ]
  /\ calls' = calls + 1
  /\ UNCHANGED << storeVars, canvasVars, probeVars >>

\* importFromTypescript(source, { mode })
ImportWithin(source, mode, limit) ==
  /\ calls < limit
  /\ \E r \in { importFromTypescript(source, mode,
                  Store(elements, selectedElementId, nextId, copiedElement)) } :
       /\ elements' = r.store.elements
       /\ selectedElementId' = r.store.selectedElementId
       /\ nextId' = r.store.nextId
       /\ copiedElement' = r.store.copiedElement
       /\ lastCall' = [ op |-> "importFromTypescript", source |-> source, mode |-> mode,
                        before |-> Store(elements, selectedElementId, nextId, copiedElement),
                        result |-> r.result ]
  /\ calls' = calls + 1
  /\ UNCHANGED << snapToElements, selectedElementIds, canvasVars, artifacts, probeVars >>

Import(source, mode) == ImportWithin(source, mode, MaxCalls)

\* The trees an export starts from. Ids are given in the order addElement
\* gives them, a child's parent is its parent's id.
TextNode(id, name, label, position) ==
  Spread(MkElement(id, name, "Text", position, << Num(200), Num(40) >>, TopCenter, FALSE, << >>),
         [ textLabel |-> label,
           textColor |-> << Num(1), Num(1) \div 2, Num(1) \div 4 >>,
           textAlpha |-> 33333,
           textSize |-> Num(18),
           textAnchor |-> CenterLeft ])

BoxNode(id, locked, children) ==
  MkElement(id, "Box", "Container", << Num(10), Num(20) >>, << Num(400), Num(300) >>,
            Center, locked, children)

\* a position with more fraction digits than an export prints
IconNode(id) ==
  MkElement(id, "Icon 1", "Image", << 1234567, 0 - (Num(5) \div 2) >>, << Num(64), Num(64) >>,
            BottomRight, FALSE, << >>)

ButtonNode(id) ==
  MkElement(id, "Play", "Button", << 0, 0 >>, << Num(120), Num(40) >>, TopLeft, FALSE, << >>)

SampleTrees ==
  { << BoxNode(1, FALSE, << >>) >>,
    << TextNode(1, "Title", "Hello", << 1050000, Num(-4) >> ) >>,
    << TextNode(1, "My Title", "Hi", << 0, 0 >>) >>,
    << TextNode(1, "a b c", "x", << 0, 0 >>) >>,
    << TextNode(1, "Note", "", << 0, 0 >>) >>,
    << TextNode(1, " T", "say \"hi\"\n\\o/", << 0, 0 >>) >>,
    << IconNode(1) >>,
    << ButtonNode(1) >>,
    << BoxNode(1, TRUE, << WithParent(TextNode(2, "Title", "Hello", << 0, 0 >>), 1),
                           WithParent(TextNode(3, "Note", "", << 0, 0 >>), 1) >>) >>,
    << BoxNode(1, FALSE, << >>), BoxNode(2, FALSE, << >>) >>,
    << TextNode(1, "Title", "Hello", << 0, 0 >>), TextNode(2, "Title", "", << 0, 0 >>) >> }

\* texts that did not come from an export
SampleTexts ==
  { "",
    " \n",
    "const widget = 1;",
    "const widget = modlib.ParseUI;",
    "modlib.ParseUI({ name: A, size: [1, 2] }; (done)",
    "modlib.ParseUI([{ name: \"A\" }]);",
    "modlib.ParseUI({ name: \"A\" }); modlib.ParseUI({ anchor: mod.UIAnchor.Middle });",
    "modlib.ParseUI({ children: [null] });",
    "modlib.ParseUI();",
    "modlib.ParseUI({ name: 'A', type: Text, textLabel: \"hi\" /* ) */, children: [{}] });" }

InitCode ==
  /\ elements \in SampleTrees
  /\ selectedElementId \in { NoId, 1 }
  /\ nextId = Len(Flatten(elements)) + 1
  /\ copiedElement = NullRec
  /\ snapToElements = TRUE
  /\ selectedElementIds = << >>
  /\ FreshCanvas /\ FreshIo /\ FreshProbe

ImportExported ==
  /\ artifacts # NullRec
  /\ \E mode \in ImportModes : Import(artifacts.typescriptCode, mode)

ImportText == \E source \in SampleTexts, mode \in ImportModes : Import(source, mode)

NextCode == Export \/ ImportExported \/ ImportText

SpecCode == InitCode /\ [][NextCode]_vars

\* ---------------------------------------------------------------------
\* Editing a store that starts empty
\* ---------------------------------------------------------------------
\* store calls of one run
MaxOps == 4

\* addElement's arguments: with a name, and without one
AddedKinds == { << "Container", "" >>, << "Container", "Box" >>, << "Text", "Box" >> }

\* updateElement's arguments: a new name, place and size; the lock put on;
\* the lock taken off together with a new place and size
StoreUpdates ==
  { [ name |-> "Box_Copy", position |-> << Num(5), Num(7) >>, size |-> << Num(30), Num(20) >> ],
    [ locked |-> TRUE ],
    [ locked |-> FALSE, position |-> << Num(9), Num(9) >>, size |-> << Num(12), Num(8) >> ] }

\* texts importFromTypescript is given: two calls with three roots and a
\* child, a call without arguments, and no call
StoreTexts ==
  { "modlib.ParseUI({ name: \"Box\", children: [{ type: Text }] }, {}); modlib.ParseUI({});",
    "modlib.ParseUI();",
    "const widget = 1;" }

\* the identifiers a call can name: those given so far and the next one
KnownIds == 1..nextId

\* a call of the service: the store it leaves and what is remembered of it
StoreCall(op, args, after) ==
  /\ calls < MaxOps
  /\ elements' = after.elements
  /\ selectedElementId' = after.selectedElementId
  /\ nextId' = after.nextId
  /\ copiedElement' = after.copiedElement
  /\ lastCall' = [ op |-> op, args |-> args,
                   before |-> Store(elements, selectedElementId, nextId, copiedElement) ]
  /\ calls' = calls + 1
  /\ UNCHANGED << snapToElements, selectedElementIds, canvasVars, artifacts, probeVars >>

CurrentStore == Store(elements, selectedElementId, nextId, copiedElement)

AddElement ==
  \E kind \in AddedKinds, suffix \in RandomSuffixes :
    StoreCall("addElement", [ type |-> kind[1], name |-> kind[2] ],
              addElement(CurrentStore, kind[1], kind[2], suffix))

SelectElement ==
  \E id \in { NoId } \cup NodeIds(elements) :
    StoreCall("selectElement", [ elementId |-> id ], selectElement(CurrentStore, id))

RemoveElement ==
  \E id \in KnownIds :
    StoreCall("removeElement", [ elementId |-> id ], removeElement(CurrentStore, id))

MoveElement ==
  \E id \in KnownIds, direction \in { "up", "down" } :
    StoreCall("moveElement", [ elementId |-> id, direction |-> direction ],
              moveElement(CurrentStore, id, direction))

UpdateElement ==
  \E id \in KnownIds, updates \in StoreUpdates :
    StoreCall("updateElement", [ elementId |-> id, updates |-> updates ],
              [ CurrentStore EXCEPT !.elements = updateElement(@, id, updates) ])

CopyElement ==
  \E id \in KnownIds :
    StoreCall("copyElement", [ elementId |-> id ], copyElement(CurrentStore, id))

PasteCopiedElement ==
  StoreCall("pasteCopiedElement", << >>, pasteCopiedElement(CurrentStore))

DuplicateElement ==
  \E id \in KnownIds :
    StoreCall("duplicateElement", [ elementId |-> id ], duplicateElement(CurrentStore, id))

Clear == StoreCall("clear", << >>, clear(CurrentStore))

ImportStore ==
  \E source \in StoreTexts, mode \in ImportModes :
    ImportWithin(source, mode, MaxOps)

InitStore == FreshStore /\ FreshCanvas /\ FreshIo /\ FreshProbe

NextStore ==
  \/ AddElement
  \/ SelectElement
  \/ RemoveElement
  \/ MoveElement
  \/ UpdateElement
  \/ CopyElement
  \/ PasteCopiedElement
  \/ DuplicateElement
  \/ Clear
  \/ ImportStore

SpecStore == InitStore /\ [][NextStore]_vars

\* ---------------------------------------------------------------------
\* Identifiers in a text that is imported
\* ---------------------------------------------------------------------
\* identifiers written as the value of a property
SampleIdentifiers ==
  { "true", "false", "null", "undefined",
    "mod.UIAnchor.TopLeft", "mod.UIAnchor.Center", "mod.UIAnchor.BottomRight",
    "mod.UIAnchor.Middle", "mod.UIAnchor.None", "mod.UIAnchor.topleft", "mod.UIAnchor.0",
    "mod.UIAnchor.", "mod.UIAnchor",
    "mod.UIBgFill.Solid", "mod.UIBgFill.None", "mod.UIBgFill.Center",
    "mod.UIImageType.None", "mod.UIImageType.TEMP_PortalIcon", "mod.UIImageType.Solid",
    "mod.stringkeys.Title", "mod.stringkeys.", "mod.stringkeys",
    "mod.UIDepth.AboveGameUI", "mod.Message", "mod.", "mod",
    "Text", "UIAnchor.TopLeft", "modlib.x", "True", "NULL" }

\* the properties they are the value of
IdentifierProperties == { "name", "textLabel", "anchor", "bgFill", "imageType" }

IdentifierText(property, identifier) ==
  "modlib.ParseUI({ " \o property \o ": " \o identifier \o " });"

InitIdentifiers == FreshStore /\ FreshCanvas /\ FreshIo /\ FreshProbe

\* importFromTypescript of a text with one identifier, into the fresh store
ResolveIdentifier ==
  /\ probe = NullRec
  /\ \E property \in IdentifierProperties, identifier \in SampleIdentifiers, mode \in ImportModes :
       /\ probe' = [ property |-> property, identifier |-> identifier, mode |-> mode,
                     tokens |-> tokenizeParseUiPayload(
                                  "{ " \o property \o ": " \o identifier \o " }").tokens ]
       /\ probeOut' = [ resolved |-> resolveIdentifierToken(identifier),
                        imported |-> importFromTypescript(
                                       IdentifierText(property, identifier), mode,
                                       Store(elements, selectedElementId, nextId,
                                             copiedElement)) ]
  /\ UNCHANGED << storeVars, canvasVars, ioVars >>

NextIdentifiers == ResolveIdentifier

SpecIdentifiers == InitIdentifiers /\ [][NextIdentifiers]_vars

\* ---------------------------------------------------------------------
\* The loops of the import, one round at a time
\* ---------------------------------------------------------------------
\* texts handed to parseParseUiTypescript
PipelineTexts ==
  { "const widget = 1;",
    "x modlib.ParseUI;",
    "modlib.ParseUI({ a: \"(\" // )\n, b: [1, -2.5, ')'] /* ( */ }); modlib.ParseUI();",
    "modlib.ParseUI({ n: 'a\\'b', c: [{ d: mod.UIAnchor.Center }, []] }, {}) modlib.ParseUI({})",
    "modlib.ParseUI(({ a: 1 }) /* open",
    "modlib.ParseUI({ a: \"open });",
    "modlib.ParseUI({ a: 1 b: 2 });",
    "modlib.ParseUI({ a: - });",
    "modlib.ParseUI({ a: [1, 2 });",
    "modlib.ParseUI({ a: # });",
    "modlib.ParseUI({ a: mod.x });",
    "modlib.ParseUI([{ a: 1 }]);",
    "modlib.ParseUI({ a: { b: { c: [[ ], [true, null]] } } }, { e: .5 },);" }

ScanStart(openIndex) ==
  [ index |-> openIndex + 1, depth |-> 1, payload |-> << >>, inString |-> FALSE,
    stringQuote |-> "", escaped |-> FALSE, status |-> "scanning" ]

LexStart == [ index |-> 1, tokens |-> << >>, error |-> NoError ]

ParseStart ==
  [ index |-> 1, stack |-> << >>, results |-> << >>, hasValue |-> FALSE,
    value |-> JsUndefined, error |-> NoError, done |-> FALSE ]

\* where parseParseUiTypescript stands: the loop it is in and that loop's
\* variables
PipelineStart(source) ==
  [ source |-> source, stage |-> "search", searchIndex |-> 1, payloads |-> << >>,
    scan |-> NullRec, k |-> 0, lex |-> NullRec, parse |-> NullRec, count |-> 0,
    error |-> NoError ]

PipelineFails(p, message) == [ p EXCEPT !.stage = "done", !.error = message ]

\* the for loop over the payloads goes to payload k
ToPayload(p, k) ==
  IF k > Len(p.payloads) THEN [ p EXCEPT !.stage = "done", !.k = k ]
  ELSE [ p EXCEPT !.stage = "tokenize", !.k = k, !.lex = LexStart, !.parse = NullRec ]

\* one round of the while loop of extractParseUiPayloads, up to the scan
SearchRound(p) ==
  The({ IF p.searchIndex > Len(p.source) \/ callIndex = 0
        THEN IF Len(p.payloads) = 0
             THEN PipelineFails(p, "Could not find a modlib.ParseUI call in the provided code.")
             ELSE ToPayload(p, 1)
        ELSE The({ IF openIndex = 0
                   THEN PipelineFails(p,
                          "The modlib.ParseUI call is missing its opening parenthesis.")
                   ELSE [ p EXCEPT !.stage = "scan", !.scan = ScanStart(openIndex) ]
                   : openIndex \in { IndexOf(p.source, "(", callIndex + Len("modlib.ParseUI")) } })
        : callIndex \in { IndexOf(p.source, "modlib.ParseUI", p.searchIndex) } })

\* one round of the while loop of extractNextParseUiPayload
ScanRound(p) ==
  The({ IF s.status = "closed"
        THEN [ p EXCEPT !.stage = "search", !.searchIndex = s.index + 1,
                        !.payloads = Append(@, Trim(Concat(s.payload, 1, Len(s.payload)))),
                        !.scan = s ]
        ELSE IF s.status = "unmatched"
        THEN PipelineFails(p, "The modlib.ParseUI call appears to have unmatched parentheses.")
        ELSE [ p EXCEPT !.scan = s ]
        : s \in { ExtractStep(p.source, p.scan) } })

\* one round of the while loop of tokenizeParseUiPayload
TokenizeRound(p) ==
  IF p.lex.index > Len(p.payloads[p.k])
  THEN IF Len(p.lex.tokens) = 0 THEN ToPayload(p, p.k + 1)
       ELSE [ p EXCEPT !.stage = "parse", !.parse = ParseStart ]
  ELSE The({ IF s.error # NoError THEN PipelineFails(p, s.error) ELSE [ p EXCEPT !.lex = s ]
             : s \in { TokenizeStep(p.payloads[p.k], p.lex) } })

\* one round of the loops of parseTokensToParams
ParseRound(p) ==
  The({ IF s.error # NoError THEN PipelineFails(p, s.error)
        ELSE IF s.done THEN ToPayload([ p EXCEPT !.count = @ + Len(s.results) ], p.k + 1)
        ELSE [ p EXCEPT !.parse = s ]
        : s \in { ParseStep(p.lex.tokens, p.parse) } })

InitPipeline ==
  /\ FreshStore /\ FreshCanvas /\ FreshIo
  /\ probe \in { PipelineStart(source) : source \in PipelineTexts }
  /\ probeOut = NullRec

PipelineStep(stage, next) ==
  /\ probe.stage = stage
  /\ probe' = next
  /\ probeOut' = IF next.stage = "done" THEN parseParseUiTypescript(probe.source) ELSE NullRec
  /\ UNCHANGED << storeVars, canvasVars, ioVars >>

Search == PipelineStep("search", SearchRound(probe))

Scan == PipelineStep("scan", ScanRound(probe))

Tokenize == PipelineStep("tokenize", TokenizeRound(probe))

Parse == PipelineStep("parse", ParseRound(probe))

NextPipeline == Search \/ Scan \/ Tokenize \/ Parse

\* the rounds are run one after the other until the stage is "done"
SpecPipeline == InitPipeline /\ [][NextPipeline]_vars /\ WF_vars(NextPipeline)

\* ---------------------------------------------------------------------
\* Export of drawn trees
\* ---------------------------------------------------------------------
\* the nodes a drawn tree is made of: their type, name, label and button flag
ExportKinds ==
  << [ type |-> "Text", name |-> "Title", textLabel |-> "Hello", buttonEnabled |-> FALSE ],
     [ type |-> "Text", name |-> "Title", textLabel |-> " Other ", buttonEnabled |-> FALSE ],
     [ type |-> "Text", name |-> "", textLabel |-> "By id", buttonEnabled |-> FALSE ],
     [ type |-> "Text", name |-> "a b c", textLabel |-> "x", buttonEnabled |-> FALSE ],
     [ type |-> "Text", name |-> "Note", textLabel |-> " \n", buttonEnabled |-> FALSE ],
     [ type |-> "Text", name |-> "toString", textLabel |-> "kept", buttonEnabled |-> FALSE ],
     [ type |-> "Container", name |-> "Title", textLabel |-> "Box text", buttonEnabled |-> FALSE ],
     [ type |-> "Button", name |-> "", textLabel |-> "Go", buttonEnabled |-> FALSE ],
     [ type |-> "Button", name |-> "42", textLabel |-> "", buttonEnabled |-> TRUE ],
     [ type |-> "Image", name |-> "!!!", textLabel |-> "", buttonEnabled |-> FALSE ] >>

KindNode(kind, id, parentId, children) ==
  Spread(MkElement(id, ExportKinds[kind].name, ExportKinds[kind].type, << 0, 0 >>,
                   << Num(100), Num(50) >>, TopLeft, FALSE, children),
         [ textLabel |-> ExportKinds[kind].textLabel,
           buttonEnabled |-> ExportKinds[kind].buttonEnabled,
           parent |-> parentId ])

\* the kinds three roots are drawn from: equal names, no name, no letter
ManyRootKinds == { 1, 7, 8, 9 }

\* no root, one root, two roots, a root with a child, a root with a child and
\* then a second root, three roots; ids in the order addElement gives them
ExportTrees ==
  LET kinds == DOMAIN ExportKinds
  IN { << KindNode(a, 1, NoId, << >>) >> : a \in kinds }
     \cup { << KindNode(a, 1, NoId, << >>), KindNode(b, 2, NoId, << >>) >> : a, b \in kinds }
     \cup { << KindNode(a, 1, NoId, << KindNode(b, 2, 1, << >>) >>) >> : a, b \in kinds }
     \cup { << KindNode(a, 1, NoId, << KindNode(b, 2, 1, << >>) >>), KindNode(c, 3, NoId, << >>) >>
            : a, b, c \in kinds }
     \cup { << KindNode(a, 1, NoId, << >>), KindNode(b, 2, NoId, << >>), KindNode(c, 3, NoId, << >>) >>
            : a, b, c \in ManyRootKinds }
     \cup { << >> }

InitExport ==
  /\ elements \in ExportTrees
  /\ selectedElementId = NoId
  /\ nextId = Len(Flatten(elements)) + 1
  /\ copiedElement = NullRec
  /\ snapToElements = TRUE
  /\ selectedElementIds = << >>
  /\ FreshCanvas /\ FreshIo /\ FreshProbe

NextExport == Export

SpecExport == InitExport /\ [][NextExport]_vars

\* ---------------------------------------------------------------------
\* Comments put into a text that is parsed
\* ---------------------------------------------------------------------
MaxComments == 2

\* valid texts cut at places between the arguments and properties of their
\* calls; the string literals hold parentheses, quotes and comment markers
CommentBases ==
  { << "const w = modlib.ParseUI(", "{ name:", " \"a) (b\"", ",", " size: [1", ", 2] }",
       ",", " { type: 'Text', textLabel: 'c(' }", ");" >>,
    << "modlib.ParseUI(", "{ name", ": 'it\\'s (',", " children: [", "{ name: \"/* no */ //\" }",
       "]", ", anchor: mod.UIAnchor.Center", "}", ");" >> }

\* a piece is followed by a gap, the last piece and the one before it apart:
\* the gaps are inside the parentheses of the call
CommentGaps(base) == 1..(Len(base) - 2)

\* line comments with their line end, and block comments
SampleComments ==
  { "// one (, two' \"\n", "/* ) , ' \" */", "/*(*/", "//))\r\n" }

\* the text of the pieces with the comment of each gap after its piece
CommentedText(base, commentAt) ==
  Concat([ i \in 1..Len(base) |->
             IF i \in DOMAIN commentAt THEN base[i] \o commentAt[i] ELSE base[i] ],
         1, Len(base))

CommentCount(commentAt) == Cardinality({ g \in DOMAIN commentAt : commentAt[g] # "" })

InitComments ==
  /\ FreshStore /\ FreshCanvas /\ FreshIo
  /\ \E base \in CommentBases :
       /\ probe = [ base |-> base, commentAt |-> [ g \in CommentGaps(base) |-> "" ] ]
       /\ \E plain \in { parseParseUiTypescript(Concat(base, 1, Len(base))) } :
            probeOut = [ plain |-> plain, commented |-> plain ]

\* a comment goes into a gap that has none, and the text is parsed again
InsertComment ==
  /\ CommentCount(probe.commentAt) < MaxComments
  /\ \E g \in DOMAIN probe.commentAt, comment \in SampleComments :
       /\ probe.commentAt[g] = ""
       /\ \E commentAt \in { [ probe.commentAt EXCEPT ![g] = comment ] } :
            /\ probe' = [ probe EXCEPT !.commentAt = commentAt ]
            /\ probeOut' = [ probeOut EXCEPT !.commented =
                               parseParseUiTypescript(CommentedText(probe.base, commentAt)) ]
  /\ UNCHANGED << storeVars, canvasVars, ioVars >>

NextComments == InsertComment

SpecComments == InitComments /\ [][NextComments]_vars

\* ---------------------------------------------------------------------
\* Properties of the anchor functions
\* ---------------------------------------------------------------------
LeftAnchors    == { TopLeft, CenterLeft, BottomLeft }
RightAnchors   == { TopRight, CenterRight, BottomRight }
TopAnchors     == { TopLeft, TopCenter, TopRight }
BottomAnchors  == { BottomLeft, BottomCenter, BottomRight }

\* C3: for each of the 9 anchors, every container size and every element
\* size, an element at position (0,0) is placed so that the edge or centre
\* of its box that the anchor names lies on the same edge or centre of the
\* container, on each axis.
AnchorIdentity ==
  probeOut # NullRec =>
    /\ IF probe.anchor \in LeftAnchors THEN probeOut.left = 0
       ELSE IF probe.anchor \in RightAnchors THEN probeOut.left + probe.size[1] = probe.container[1]
       ELSE 2 * probeOut.left + probe.size[1] = probe.container[1]
    /\ IF probe.anchor \in TopAnchors THEN probeOut.top = 0
       ELSE IF probe.anchor \in BottomAnchors THEN probeOut.top + probe.size[2] = probe.container[2]
       ELSE 2 * probeOut.top + probe.size[2] = probe.container[2]

\* a 3 x 1.5 box anchored at the centre of the 200 x 300 container
AnchorIdentityReached ==
  /\ probeOut # NullRec
  /\ probe.anchor = Center
  /\ probe.container = << Num(200), Num(300) >>
  /\ probe.size = << Num(3), Num(3) \div 2 >>
  /\ probeOut.centerX = Num(100)
  /\ probeOut.centerY = Num(150)

\* ---------------------------------------------------------------------
\* Properties of the bounds and of the canvas geometry
\* ---------------------------------------------------------------------
\* the rect the recursive definition gives an entry, from its parent's entry
ExpectedRect(element, parentRect) ==
  The({ MkRect(parentRect.left + anchorStart.x + anchorOffset.x + element.position[1],
               parentRect.top + anchorStart.y + anchorOffset.y + element.position[2],
               element.size[1], element.size[2])
        : anchorStart \in { getAnchorStartCoordinates(element.anchor, parentRect.width,
                                                      parentRect.height) },
          anchorOffset \in { getAnchorOffset(element.anchor, element.size) } })

BoundsOfTree(elems) ==
  The({ The({ /\ Len(all) = Len(flat)
              /\ \A i \in 1..Len(flat) :
                   Cardinality({ k \in 1..Len(all) : all[k].id = flat[i].id }) = 1
              /\ \A k \in 1..Len(all) :
                   The({ The({ /\ all[k].parentId = (IF parent = NullRec THEN NoId ELSE parent.id)
                               /\ all[k].rect =
                                    ExpectedRect(element,
                                      IF parent = NullRec THEN canvasRect
                                      ELSE all[Min({ j \in 1..Len(all) :
                                                       all[j].id = parent.id })].rect)
                               /\ all[k].rect.right = all[k].rect.left + element.size[1]
                               /\ all[k].rect.bottom = all[k].rect.top + element.size[2]
                               /\ 2 * all[k].rect.centerX = 2 * all[k].rect.left + element.size[1]
                               /\ 2 * all[k].rect.centerY = 2 * all[k].rect.top + element.size[2]
                               /\ (/\ parent # NullRec
                                   /\ element.anchor = TopLeft
                                   /\ element.position = << 0, 0 >>)
                                  => \E j \in 1..Len(all) :
                                       /\ all[j].id = parent.id
                                       /\ all[j].rect.left = all[k].rect.left
                                       /\ all[j].rect.top = all[k].rect.top
                               : parent \in { findParentElement(elems, all[k].id) } })
                         : element \in { findElementById(elems, all[k].id) } })
              : all \in { computeElementBounds(elems) } })
        : flat \in { Flatten(elems) } })

\* C4: computeElementBounds returns exactly one entry per node, each rect at
\* the parent's left/top (0,0 for roots) plus anchorStart (in the parent's
\* size, 1920x1080 for roots) plus anchorOffset plus the position, with
\* right, bottom and centres derived from left, top and size; a TopLeft
\* child at (0,0) lies on its parent's top-left corner.
BoundsRecursiveDefinition == BoundsOfTree(elements)

\* the tree of the service's bounds test after a drag of the centred child:
\* the TopLeft child at (0,0) is a candidate at its parent's corner (100,120)
BoundsRecursiveDefinitionReached ==
  /\ snapCall # NullRec
  /\ snapCall.elementId = 2
  /\ \E i \in 1..Len(snapCall.candidates) :
       /\ snapCall.candidates[i].id = 3
       /\ snapCall.candidates[i].parentId = 1
       /\ snapCall.candidates[i].rect.left = Num(100)
       /\ snapCall.candidates[i].rect.top = Num(120)
  /\ \E k \in 1..Len(computeElementBounds(elements)) :
       /\ computeElementBounds(elements)[k].id = 1
       /\ computeElementBounds(elements)[k].rect.left = Num(100)
       /\ computeElementBounds(elements)[k].rect.top = Num(120)

\* the tree with `position` stored as the element's position
StorePosition(elems, elementId, position) ==
  updateElementRecursive(elems, elementId, "spread", [position |-> position])

AbsoluteOf(elems, elementId) ==
  getAbsoluteGamePosition(elems, findElementById(elems, elementId))

InverseAt(elems, element) ==
  /\ The({ calculateAnchorAdjustedPosition(elems, at.x, at.y, element)
           : at \in { getAbsoluteGamePosition(elems, element) } })
       = [x |-> element.position[1], y |-> element.position[2]]
  /\ \A target \in Targets :
       The({ AbsoluteOf(StorePosition(elems, element.id, << local.x, local.y >>), element.id)
             : local \in { calculateAnchorAdjustedPosition(elems, target[1], target[2],
                                                           element) } })
         = [x |-> target[1], y |-> target[2]]

\* C5: for every node e, at any depth and with any anchor,
\* calculateAnchorAdjustedPosition(getAbsoluteGamePosition(e), e) is
\* e.position, and with calculateAnchorAdjustedPosition(X, Y, e) stored as
\* e.position getAbsoluteGamePosition(e) is (X, Y); so an unlocked element
\* dragged on the single-selection canvas lies where applySnapping put it.
AbsoluteLocalInverse ==
  /\ \A i \in 1..Len(Flatten(elements)) : InverseAt(elements, Flatten(elements)[i])
  /\ (/\ component = "single" /\ snapCall # NullRec /\ isDragging
      /\ ~dragElement.locked /\ snapCall.elementId = dragElement.id)
       => AbsoluteOf(elements, dragElement.id)
            = [x |-> snapCall.result.x, y |-> snapCall.result.y]

\* the TopCenter grandchild of the chain, dragged to a fractional point
AbsoluteLocalInverseReached ==
  /\ component = "single"
  /\ isDragging
  /\ snapCall # NullRec
  /\ dragElement.id = 3
  /\ dragElement.anchor = TopCenter
  /\ findParentElement(elements, 3) # NullRec
  /\ findParentElement(elements, findParentElement(elements, 3).id) # NullRec
  /\ snapCall.result.x = Num(250) + Num(1) \div 8
  /\ AbsoluteOf(elements, 3) = [x |-> snapCall.result.x, y |-> snapCall.result.y]
  /\ findElementById(elements, 3).position # dragElement.position

\* ---------------------------------------------------------------------
\* Properties of snapping
\* ---------------------------------------------------------------------
\* the distances between the lines of the proposed box and the like lines of
\* the candidates, on each axis
LineDiffsX(call) ==
  UNION { { Abs(call.candidates[i].rect.left - call.proposedX),
            Abs(call.candidates[i].rect.right - (call.proposedX + call.width)),
            Abs(call.candidates[i].rect.centerX - (call.proposedX + Half(call.width))) }
          : i \in 1..Len(call.candidates) }

LineDiffsY(call) ==
  UNION { { Abs(call.candidates[i].rect.top - call.proposedY),
            Abs(call.candidates[i].rect.bottom - (call.proposedY + call.height)),
            Abs(call.candidates[i].rect.centerY - (call.proposedY + Half(call.height))) }
          : i \in 1..Len(call.candidates) }

ThresholdRule(diffs, proposed, result, guide) ==
  IF diffs # {} /\ Min(diffs) <= Num(8)
  THEN Abs(result - proposed) = Min(diffs) /\ guide # << >>
  ELSE result = proposed /\ guide = << >>

\* C6: with the threshold of 8, applySnapping replaces an axis coordinate
\* when the nearest candidate line on that axis is within 8 units, exactly 8
\* included, of the moving box's matching line, and leaves the proposed
\* coordinate, with no guide on that axis, when the nearest line is farther,
\* 9 units for one.
SnapThresholdInclusive ==
  snapCall # NullRec =>
    /\ ThresholdRule(LineDiffsX(snapCall), snapCall.proposedX, snapCall.result.x,
                     snapCall.result.vertical)
    /\ ThresholdRule(LineDiffsY(snapCall), snapCall.proposedY, snapCall.result.y,
                     snapCall.result.horizontal)

\* the nearest vertical line exactly 8 away (snapped), the nearest
\* horizontal line 9 away (left alone)
SnapThresholdInclusiveReached ==
  /\ snapCall # NullRec
  /\ component = "single"
  /\ snapCall.candidates # << >>
  /\ Min(LineDiffsX(snapCall)) = Num(8)
  /\ snapCall.result.x # snapCall.proposedX
  /\ snapCall.result.vertical # << >>
  /\ Min(LineDiffsY(snapCall)) = Num(9)
  /\ snapCall.result.y = snapCall.proposedY
  /\ snapCall.result.horizontal = << >>

\* a call of applySnapping with snapping on, a sibling over x in [0,100]
\* among the candidates and a 50-wide box proposed at x = 104
LeadingNearTrailing(call) ==
  /\ call # NullRec
  /\ call.proposedX = Num(104)
  /\ call.width = Num(50)
  /\ \E i \in 1..Len(call.candidates) :
       /\ call.candidates[i].id # NoId
       /\ call.candidates[i].rect.left = 0
       /\ call.candidates[i].rect.right = Num(100)

\* C7 as stated: with a sibling occupying x in [0,100], a moving 50-wide box
\* proposed at x = 104 and threshold 8, applySnapping returns x = 100, the
\* moving box's left edge on the sibling's right edge.
LeadingSnapsToTrailing ==
  LeadingNearTrailing(snapCall) => snapCall.result.x = Num(100)

\* C7: applySnapping only aligns like lines, left with left, right with
\* right and centre with centre: a coordinate it replaces puts one of the
\* moving box's lines on the like line of a candidate, and with a sibling
\* occupying x in [0,100] and no other candidate line within the threshold a
\* moving 50-wide box proposed at x = 104 keeps x = 104, with no guide.
LikeLinesOnly ==
  snapCall # NullRec =>
    /\ snapCall.result.x # snapCall.proposedX =>
         \E i \in 1..Len(snapCall.candidates) :
           \/ snapCall.candidates[i].rect.left = snapCall.result.x
           \/ snapCall.candidates[i].rect.right = snapCall.result.x + snapCall.width
           \/ snapCall.candidates[i].rect.centerX = snapCall.result.x + Half(snapCall.width)
    /\ snapCall.result.y # snapCall.proposedY =>
         \E i \in 1..Len(snapCall.candidates) :
           \/ snapCall.candidates[i].rect.top = snapCall.result.y
           \/ snapCall.candidates[i].rect.bottom = snapCall.result.y + snapCall.height
           \/ snapCall.candidates[i].rect.centerY = snapCall.result.y + Half(snapCall.height)
    /\ (LeadingNearTrailing(snapCall) /\ Min(LineDiffsX(snapCall)) > Num(8)) =>
         /\ snapCall.result.x = Num(104)
         /\ snapCall.result.vertical = << >>

\* the 50-wide root proposed at x = 104 beside the root over [0,100]
LikeLinesOnlyReached ==
  /\ LeadingNearTrailing(snapCall)
  /\ Min(LineDiffsX(snapCall)) > Num(8)
  /\ snapCall.result.x = Num(104)
  /\ AbsoluteOf(elements, snapCall.elementId).x = Num(104)

\* C8: in every drag, the candidate rects of applySnapping hold neither the
\* rect of the node being moved nor, in a multi-select move, the rect of any
\* other co-moving node, a co-moving parent of the moved node included.
SelfSnapExclusion ==
  snapCall # NullRec =>
    \A i \in 1..Len(snapCall.candidates) :
      snapCall.candidates[i].id \notin snapCall.movingIds

\* ---------------------------------------------------------------------
\* Properties of export followed by import
\* ---------------------------------------------------------------------
\* the last call imported, in the given mode, the text of the last export
ImportedExport(mode) ==
  /\ lastCall # NullRec
  /\ lastCall.op = "importFromTypescript"
  /\ lastCall.mode = mode
  /\ artifacts # NullRec
  /\ lastCall.source = artifacts.typescriptCode

\* the roots the last import added
ImportedRoots ==
  SubSeq(elements, Len(elements) - lastCall.result.importedCount + 1, Len(elements))

RECURSIVE SameCommonFields(_, _)
\* as many nodes in the same order, each with the same common fields
SameCommonFields(before, after) ==
  /\ Len(before) = Len(after)
  /\ \A i \in 1..Len(before) :
       IF i > Len(after) THEN FALSE
       ELSE /\ after[i].name = before[i].name
            /\ after[i].type = before[i].type
            /\ after[i].position = before[i].position
            /\ after[i].size = before[i].size
            /\ after[i].anchor = before[i].anchor
            /\ SameCommonFields(before[i].children, after[i].children)

NamesNotEmpty(elems) == \A i \in 1..Len(Flatten(elems)) : Flatten(elems)[i].name # ""

\* C1: a replace import of the export of a tree whose names are not empty
\* gives a tree with the same roots and children in the same order and the
\* same name, type, position, size and anchor in every node.
RoundTripCommonFields ==
  (ImportedExport("replace") /\ NamesNotEmpty(artifacts.exported))
    => /\ lastCall.result.success
       /\ SameCommonFields(artifacts.exported, elements)

\* the nodes of two forests of the same shape, paired in depth-first order
Paired(before, after) ==
  { << Flatten(before)[i], Flatten(after)[i] >> : i \in 1..Len(Flatten(before)) }

Printed(value) ==
  IF value % Scale = 0 THEN value
  ELSE ToFixedUnits(value) * (Scale \div Pow10(FixedDigits))

PrintedVector(values) == [ i \in 1..Len(values) |-> Printed(values[i]) ]

\* the label an import finds for an exported Text node: the reference when
\* the node's trimmed name is a key of the string table, else the label
ImportedLabel(node, strings) ==
  IF Trim(node.name) # "" /\ Trim(node.name) \in DOMAIN strings
  THEN "mod.stringkeys." \o ReplaceFirstSpace(Trim(node.name))
  ELSE node.textLabel

ImportCalled == lastCall # NullRec /\ lastCall.op = "importFromTypescript"

\* C9: an import that returns success=false, in either mode, leaves the
\* element tree, the selected element id and the id counter as they were.
ImportAllOrNothing ==
  (ImportCalled /\ ~lastCall.result.success)
    => /\ elements = lastCall.before.elements
       /\ selectedElementId = lastCall.before.selectedElementId
       /\ nextId = lastCall.before.nextId

\* a replace import failed in its second call, after a first call that
\* parses, on a store with elements, a selection and ids given out
ImportAllOrNothingReached ==
  /\ ImportCalled
  /\ ~lastCall.result.success
  /\ lastCall.mode = "replace"
  /\ lastCall.result.error = "Unknown UIAnchor member 'Middle' in ParseUI import."
  /\ lastCall.before.elements # << >>
  /\ lastCall.before.selectedElementId # NoId
  /\ lastCall.before.nextId > 1

HasMarker(source) == IndexOf(source, "modlib.ParseUI", 1) # 0

\* where the first call's parenthesis opens, or 0
FirstOpen(source) ==
  IF HasMarker(source)
  THEN IndexOf(source, "(", IndexOf(source, "modlib.ParseUI", 1) + Len("modlib.ParseUI"))
  ELSE 0

Count(source, char, from, to) == Cardinality({ j \in from..to : At(source, j) = char })

\* a text without strings or comments whose first call is never closed
NeverBalances(source) ==
  /\ \A j \in 1..Len(source) : At(source, j) \notin {"\"", "'", "/"}
  /\ FirstOpen(source) # 0
  /\ \A j \in FirstOpen(source)..Len(source) :
       Count(source, "(", FirstOpen(source), j) > Count(source, ")", FirstOpen(source), j)

\* the first call's first argument starts as an array literal
ArrayArgument(source) ==
  /\ FirstOpen(source) # 0
  /\ At(source, FirstIndex(LAMBDA j : ~isWhitespace(At(source, j)),
                           FirstOpen(source) + 1, Len(source))) = "["

Rejected(result) == ~result.success /\ result.importedCount = 0 /\ result.error # NoError

\* C10: a text without a modlib.ParseUI marker, with a call whose
\* parentheses never balance, or with an array literal as top-level argument
\* is rejected: success=false, importedCount 0 and an error message.
MalformedRejected ==
  ImportCalled
    => /\ (~HasMarker(lastCall.source) \/ NeverBalances(lastCall.source)
             \/ ArrayArgument(lastCall.source))
            => Rejected(lastCall.result)
       /\ (~HasMarker(lastCall.source) /\ Trim(lastCall.source) # "")
            => lastCall.result.error
                 = "Could not find a modlib.ParseUI call in the provided code."
       /\ NeverBalances(lastCall.source)
            => lastCall.result.error
                 = "The modlib.ParseUI call appears to have unmatched parentheses."

\* an array literal was refused as the argument of a call that closes
MalformedRejectedReached ==
  /\ ImportCalled
  /\ ArrayArgument(lastCall.source)
  /\ Rejected(lastCall.result)
  /\ lastCall.result.error = "modlib.ParseUI arguments must be object literals."


\* ---------------------------------------------------------------------
\* Properties of comments in a parsed text
\* ---------------------------------------------------------------------
\* C11: comments put between the arguments or properties of a valid
\* modlib.ParseUI call, whatever parentheses, commas and quotes they hold,
\* and parentheses inside its string literals, leave the parsed nodes what
\* they are without the comments
CommentsTransparent ==
  /\ probeOut.plain.error = NoError
  /\ Len(probeOut.plain.params) > 0
  /\ probeOut.commented = probeOut.plain

\* a line comment and a block comment with a closing parenthesis are in the
\* text, whose string literals hold parentheses, and the nodes are as before
CommentsTransparentReached ==
  /\ CommentCount(probe.commentAt) = 2
  /\ \E g \in DOMAIN probe.commentAt : probe.commentAt[g] = "//))\r\n"
  /\ \E g \in DOMAIN probe.commentAt : probe.commentAt[g] = "/* ) , ' \" */"
  /\ Len(probeOut.commented.params) = 2
  /\ probeOut.commented.params[1].name = "a) (b"
  /\ probeOut.commented.params[2].textLabel = "c("


\* ---------------------------------------------------------------------
\* Properties of the export of a tree
\* ---------------------------------------------------------------------
\* the key of a node in the string table: its name, or its id when it has none
StringKey(node) == IF node.name # "" THEN node.name ELSE "element_" \o IntToString(node.id)

\* the places, in depth-first order, of the Text nodes under key k whose
\* label has more than white space
Writers(elems, k) ==
  { i \in 1..Len(Flatten(elems)) :
      /\ Flatten(elems)[i].type = "Text"
      /\ StringKey(Flatten(elems)[i]) = k
      /\ Trim(Flatten(elems)[i].textLabel) # "" }

StringKeys(elems) == { StringKey(Flatten(elems)[i]) : i \in 1..Len(Flatten(elems)) }

\* C12: the string table of an export has a key exactly when a Text node
\* with that key has a label that is not empty after trimming, and the value
\* is the trimmed label of the first such node in depth-first order
StringTableContents ==
  artifacts # NullRec =>
    /\ DOMAIN artifacts.strings
         = { k \in StringKeys(artifacts.exported) : Writers(artifacts.exported, k) # {} }
    /\ \A k \in DOMAIN artifacts.strings :
         artifacts.strings[k]
           = Trim(Flatten(artifacts.exported)[Min(Writers(artifacts.exported, k))].textLabel)


\* the values a text gives to the properties of one name, in the order they
\* are in: what stands between `name: ` and the end of the line, less a comma
PropertyValues(code, property) ==
  The({ [ k \in 1..Cardinality(at) |->
            The({ The({ SubSeq(code, j + Len(property) + Len(": "),
                               IF At(code, end - 1) = "," THEN end - 2 ELSE end - 1)
                        : end \in { FirstIndex(LAMBDA i : At(code, i) = "\n", j, Len(code)) } })
                  : j \in { CHOOSE i \in at : Cardinality({ h \in at : h < i }) = k - 1 } }) ]
        : at \in { { j \in 1..Len(code) :
                       /\ At(code, j) = At(property, 1) /\ At(code, j - 1) = " "
                       /\ SubSeq(code, j, j + Len(property) + 1) = property \o ": " } } })

LabelValues(code) == PropertyValues(code, "textLabel")

\* the Text nodes of a tree in depth-first order
TextNodes(elems) == SelectSeq(Flatten(elems), LAMBDA node : node.type = "Text")

\* the name with every space replaced by an underscore
AllSpacesReplaced(name) == MapChars(LAMBDA char : IF char = " " THEN "_" ELSE char, name)

HasEntry(strings, name) == name \in DOMAIN strings /\ strings[name] # ""

\* C13: a Text node's label is exported as mod.stringkeys.<key>, the key
\* being the node's name with every space replaced by an underscore, exactly
\* when the string table has a non-empty entry for it, and as the quoted
\* label otherwise; the quoted text of a referenced label is not in the code
LabelReferenceRule ==
  artifacts # NullRec =>
    \E nodes \in { TextNodes(artifacts.exported) },
       values \in { LabelValues(artifacts.typescriptCode) } :
      /\ Len(values) = Len(nodes)
      /\ \A i \in 1..Len(nodes) :
           IF HasEntry(artifacts.strings, nodes[i].name)
           THEN /\ values[i] = "mod.stringkeys." \o AllSpacesReplaced(nodes[i].name)
                /\ \A j \in 1..Len(values) : values[j] # formatString(nodes[i].textLabel)
           ELSE values[i] = formatString(nodes[i].textLabel)


\* the declarations of a text, in order: the variable a modlib.ParseUI call
\* is bound to and the line that follows the call's opening
Declarations(code) ==
  The({ [ k \in 1..Cardinality(at) |->
            The({ The({ [ variableName |-> SubSeq(code, j + Len("const "), call - 1),
                          firstLine |->
                            SubSeq(code, call + Len(" = modlib.ParseUI(\n  {\n"),
                                   FirstIndex(LAMBDA i : At(code, i) = "\n",
                                              call + Len(" = modlib.ParseUI(\n  {\n"),
                                              Len(code)) - 1) ]
                        : call \in { IndexOf(code, " = modlib.ParseUI(\n  {\n", j) } })
                  : j \in { CHOOSE i \in at : Cardinality({ h \in at : h < i }) = k - 1 } }) ]
        : at \in { { j \in 1..Len(code) :
                       /\ At(code, j) = "c" /\ At(code, j - 1) = "\n"
                       /\ SubSeq(code, j, j + Len("const ") - 1) = "const " } } })

\* C14: a tree with n roots is exported as n modlib.ParseUI declarations, the
\* i-th being that of the i-th root, and the n variable names differ from one
\* another whatever the roots' names
MultiRootDeclarations ==
  artifacts # NullRec =>
    \E roots \in { artifacts.exported }, decls \in { Declarations(artifacts.typescriptCode) } :
      /\ Len(decls) = Len(roots)
      /\ \A i \in 1..Len(roots) :
           decls[i].firstLine = "    name: " \o formatString(roots[i].name) \o ","
      /\ \A i, j \in 1..Len(decls) : i # j => decls[i].variableName # decls[j].variableName

\* three roots, all with the same name or two of them without a name, have
\* been exported under names that differ
MultiRootDeclarationsReached ==
  /\ artifacts # NullRec
  /\ Len(artifacts.exported) = 3
  /\ \/ \A i \in 1..3 : artifacts.exported[i].name = "Title"
     \/ \E i, j \in 1..3 : i # j /\ artifacts.exported[i].name = "" /\ artifacts.exported[j].name = ""
  /\ Cardinality({ Declarations(artifacts.typescriptCode)[i].variableName : i \in 1..3 }) = 3


\* C15: the exported code prints the stored buttonEnabled of every node, and
\* the button state fields of a node only when its buttonEnabled is true; a
\* tree with no such node gives code with 'buttonEnabled: false' and without
\* 'buttonColorBase'
ButtonExportFollowsFlag ==
  (artifacts # NullRec /\ Len(artifacts.exported) > 0) =>
    \E nodes \in { Flatten(artifacts.exported) },
       flags \in { PropertyValues(artifacts.typescriptCode, "buttonEnabled") },
       bases \in { PropertyValues(artifacts.typescriptCode, "buttonColorBase") } :
      /\ flags = [ i \in 1..Len(nodes) |-> formatBoolean(nodes[i].buttonEnabled) ]
      /\ Len(bases) = Cardinality({ i \in 1..Len(nodes) : nodes[i].buttonEnabled })


\* the part of the code that holds the own properties of each node, in
\* depth-first order: from its name to the name of the next node
NodeSegments(code) ==
  The({ [ k \in 1..Cardinality(at) |->
            The({ SubSeq(code, j, Min({ h \in at \cup { Len(code) + 1 } : h > j }) - 1)
                  : j \in { CHOOSE i \in at : Cardinality({ h \in at : h < i }) = k - 1 } }) ]
        : at \in { { j \in 1..Len(code) :
                       /\ At(code, j) = "n" /\ At(code, j - 1) = " "
                       /\ SubSeq(code, j, j + Len("name: ") - 1) = "name: " } } })

ButtonStates == { "Base", "Disabled", "Pressed", "Hover", "Focused" }

ColorField(state) == "buttonColor" \o state
AlphaField(state) == "buttonAlpha" \o state

IdsUnique ==
  /\ Cardinality(NodeIds(elements)) = Len(Flatten(elements))
  /\ \A id \in NodeIds(elements) : id >= 1 /\ id < nextId

\* C17 happens: a copied subtree is pasted into a store that clear has
\* emptied, the counter being back at 1, and the clones take the ids the
\* copied nodes had
IdsUniqueReached ==
  /\ lastCall # NullRec
  /\ lastCall.op = "pasteCopiedElement"
  /\ lastCall.before.copiedElement # NullRec
  /\ lastCall.before.elements = << >>
  /\ lastCall.before.nextId = 1
  /\ Len(Flatten(elements)) >= 2
  /\ lastCall.before.copiedElement.snapshot.id \in NodeIds(elements)

\* the ids of a list of nodes, in order
IdsOf(elems) == [ i \in 1..Len(elems) |-> elems[i].id ]

\* a node without its children
Fields(element) == [ element EXCEPT !.children = << >> ]

\* the node elementId and everything below it
SubtreeIds(elems, elementId) ==
  IF findElementById(elems, elementId) = NullRec THEN { }
  ELSE NodeIds(<< findElementById(elems, elementId) >>)

\* the child ids of a node, or the root ids for NoId
ChildIds(elems, parentId) ==
  IF parentId = NoId THEN IdsOf(elems) ELSE IdsOf(findElementById(elems, parentId).children)

\* C18: removeElement(id) detaches the node and its whole subtree and
\* nothing else: afterwards the tree holds neither id nor a former
\* descendant of it, every other node is still there with the same parent,
\* the same fields and the same order among its siblings, and a call with
\* an id that is not in the tree leaves the tree as it was.
RemoveDetachesSubtree ==
  (lastCall # NullRec /\ lastCall.op = "removeElement") =>
    \E before \in { lastCall.before.elements } :
      \E gone \in { SubtreeIds(before, lastCall.args.elementId) } :
        /\ NodeIds(elements) = NodeIds(before) \ gone
        /\ Len(Flatten(elements)) = Cardinality(NodeIds(elements))
        /\ \A id \in NodeIds(elements) :
             /\ Fields(findElementById(elements, id)) = Fields(findElementById(before, id))
             /\ getElementLocation(elements, id).parentId
                  = getElementLocation(before, id).parentId
             /\ ChildIds(elements, id)
                  = SelectSeq(ChildIds(before, id), LAMBDA child : child \notin gone)
        /\ ChildIds(elements, NoId)
             = SelectSeq(ChildIds(before, NoId), LAMBDA child : child \notin gone)
        /\ (gone = { }) => elements = before

\* C18 happens: a node that has children is removed from a tree in which
\* other nodes stay, one of them a sibling that came after it
RemoveDetachesSubtreeReached ==
  /\ lastCall # NullRec
  /\ lastCall.op = "removeElement"
  /\ Cardinality(SubtreeIds(lastCall.before.elements, lastCall.args.elementId)) >= 2
  /\ elements # << >>
  /\ \E at \in { getElementLocation(lastCall.before.elements, lastCall.args.elementId) } :
       at.index + 1 < at.siblingCount

\* C18 happens also for an id that no node has
RemoveUnknownReached ==
  /\ lastCall # NullRec
  /\ lastCall.op = "removeElement"
  /\ lastCall.before.elements # << >>
  /\ lastCall.args.elementId \notin NodeIds(lastCall.before.elements)

\* the element addElement makes: the next id, the type asked for, the name
\* asked for or the type followed by "_" and a random suffix, no child
IsAdded(element, call) ==
  /\ element.id = call.before.nextId
  /\ element.type = call.args.type
  /\ element.children = << >>
  /\ \/ call.args.name # "" /\ element.name = call.args.name
     \/ call.args.name = "" /\ \E suffix \in RandomSuffixes :
                                  element.name = call.args.type \o "_" \o suffix
  /\ \E name \in { element.name } :
       element = createUIElement(call.args.type, name, call.before.nextId)

\* the element the selection of a store refers to, NullRec when the
\* selection is empty or names no node
Selected(store) ==
  IF store.selectedElementId = NoId THEN NullRec
  ELSE findElementById(store.elements, store.selectedElementId)

\* C19: addElement appends the new element as the last child of the
\* selected element when that is an existing Container, and as the last
\* root when nothing is selected or the selected id names no node; in both
\* cases the new element becomes the selection. When the selected element
\* exists and is not a Container, the tree, the selection and the id
\* counter stay as they were.
AddElementPlacement ==
  (lastCall # NullRec /\ lastCall.op = "addElement") =>
    \E before \in { lastCall.before } :
      \E parent \in { Selected(before) } :
        IF parent # NullRec /\ parent.type # "Container"
        THEN /\ elements = before.elements
             /\ selectedElementId = before.selectedElementId
             /\ nextId = before.nextId
        ELSE /\ nextId = before.nextId + 1
             /\ selectedElementId = before.nextId
             /\ IF parent = NullRec
                THEN /\ Len(elements) = Len(before.elements) + 1
                     /\ SubSeq(elements, 1, Len(before.elements)) = before.elements
                     /\ IsAdded(elements[Len(elements)], lastCall)
                ELSE \E now \in { findElementById(elements, parent.id) } :
                       /\ Len(now.children) = Len(parent.children) + 1
                       /\ SubSeq(now.children, 1, Len(parent.children)) = parent.children
                       /\ IsAdded(now.children[Len(now.children)], lastCall)
                       /\ Fields(now) = Fields(parent)
                       /\ removeElementRecursive(elements, before.nextId) = before.elements

\* C19 happens: an element is added while the selection names a node that
\* was removed together with its parent, and it becomes the last root after
\* a root that was there
AddElementPlacementReached ==
  /\ lastCall # NullRec
  /\ lastCall.op = "addElement"
  /\ lastCall.before.selectedElementId # NoId
  /\ Selected(lastCall.before) = NullRec
  /\ Len(elements) >= 2
  /\ selectedElementId = elements[Len(elements)].id

\* C19 happens also with a Container selected that has a child already
AddToContainerReached ==
  /\ lastCall # NullRec
  /\ lastCall.op = "addElement"
  /\ Selected(lastCall.before) # NullRec
  /\ Selected(lastCall.before).type = "Container"
  /\ Len(Selected(lastCall.before).children) >= 1
  /\ Len(findElementById(elements, lastCall.before.selectedElementId).children) >= 2

\* C19 happens also with a Text selected
AddToTextReached ==
  /\ lastCall # NullRec
  /\ lastCall.op = "addElement"
  /\ Selected(lastCall.before) # NullRec
  /\ Selected(lastCall.before).type = "Text"
  /\ lastCall.args.type = "Container"

\* C20: a successful import adopts the result or appends it. With k
\* top-level object arguments in all the modlib.ParseUI calls of the text,
\* importFromTypescript returns importedCount = k; in replace mode the roots
\* of the store become exactly those k nodes in the order of the text; in
\* append mode the roots there were are kept, unchanged and in order, and
\* the k new roots follow them; in both modes no element is selected
\* afterwards.
ImportAdoptsOrAppends ==
  (lastCall # NullRec /\ lastCall.op = "importFromTypescript" /\ lastCall.result.success) =>
    \E params \in { parseParseUiTypescript(lastCall.source).params } :
      /\ lastCall.result.importedCount = Len(params)
      /\ lastCall.mode = "replace" =>
           /\ Len(elements) = Len(params)
           /\ elements = restoreElementsFromParams(params, 1).elements
      /\ lastCall.mode = "append" =>
           /\ Len(elements) = Len(lastCall.before.elements) + Len(params)
           /\ elements = lastCall.before.elements
                           \o restoreElementsFromParams(params, lastCall.before.nextId).elements
      /\ selectedElementId = NoId

RECURSIVE SameShape(_, _)
\* two subtrees of the same shape whose nodes agree, place by place, in
\* type, position and size
SameShape(a, b) ==
  /\ a.type = b.type
  /\ a.position = b.position
  /\ a.size = b.size
  /\ Len(a.children) = Len(b.children)
  /\ \A i \in 1..Len(a.children) : SameShape(a.children[i], b.children[i])

\* the node named by the copy is in the tree, below the parent it had when
\* it was copied
SourceInPlace(store) ==
  /\ getElementLocation(store.elements, store.copiedElement.sourceId) # NullRec
  /\ getElementLocation(store.elements, store.copiedElement.sourceId).parentId
       = store.copiedElement.parentId

\* C21: copy and paste carry the whole subtree as it was when it was
\* copied. copyElement(id) of a node of the tree keeps that node's subtree;
\* updateElement and removeElement leave what was kept as it is; each
\* pasteCopiedElement inserts a node whose subtree has the shape of the kept
\* one and its types, positions and sizes, every id being new to the tree,
\* and changes nothing else. While the source is where it was copied, the
\* paste lands right after it among its siblings, and the pasted copy is
\* the source of the next paste.
PasteCarriesSnapshot ==
  /\ (lastCall # NullRec /\ lastCall.op = "copyElement"
        /\ lastCall.args.elementId \in NodeIds(lastCall.before.elements)) =>
       /\ copiedElement # NullRec
       /\ copiedElement.snapshot
            = findElementById(lastCall.before.elements, lastCall.args.elementId)
       /\ copiedElement.sourceId = lastCall.args.elementId
       /\ SourceInPlace(CurrentStore)
       /\ elements = lastCall.before.elements
  /\ (lastCall # NullRec /\ lastCall.op \in { "updateElement", "removeElement" }) =>
       copiedElement = lastCall.before.copiedElement
  /\ (lastCall # NullRec /\ lastCall.op = "pasteCopiedElement"
        /\ lastCall.before.copiedElement # NullRec) =>
       \E before \in { lastCall.before } :
         \E inserted \in { findElementById(elements, selectedElementId) } :
           /\ inserted # NullRec
           /\ SameShape(inserted, before.copiedElement.snapshot)
           /\ NodeIds(<< inserted >>) \cap NodeIds(before.elements) = { }
           /\ Cardinality(NodeIds(<< inserted >>)) = Len(Flatten(<< inserted >>))
           /\ removeElementRecursive(elements, inserted.id) = before.elements
           /\ copiedElement.snapshot = before.copiedElement.snapshot
           /\ copiedElement.sourceId = inserted.id
           /\ SourceInPlace(CurrentStore)
           /\ SourceInPlace(before) =>
                \E source \in { getElementLocation(before.elements,
                                                   before.copiedElement.sourceId) } :
                  \E at \in { getElementLocation(elements, inserted.id) } :
                    /\ at.parentId = source.parentId
                    /\ at.index = source.index + 1
                    /\ getElementLocation(elements, before.copiedElement.sourceId) = 
                         [ source EXCEPT !.siblingCount = @ + 1 ]

\* C21 happens: a node with a child is copied, the node is then given
\* another place and size, and the paste puts a copy with the old place and
\* size, and the child, right after it
PasteCarriesSnapshotReached ==
  /\ lastCall # NullRec
  /\ lastCall.op = "pasteCopiedElement"
  /\ lastCall.before.copiedElement # NullRec
  /\ SourceInPlace(lastCall.before)
  /\ Len(lastCall.before.copiedElement.snapshot.children) >= 1
  /\ \E source \in { findElementById(elements, lastCall.before.copiedElement.sourceId) } :
       /\ source.position # lastCall.before.copiedElement.snapshot.position
       /\ source.size # lastCall.before.copiedElement.snapshot.size
       /\ findElementById(elements, selectedElementId).position
            = lastCall.before.copiedElement.snapshot.position

\* C21 happens also when the source has been removed before the paste
PasteAfterRemoveReached ==
  /\ lastCall # NullRec
  /\ lastCall.op = "pasteCopiedElement"
  /\ lastCall.before.copiedElement # NullRec
  /\ lastCall.before.elements # << >>
  /\ lastCall.before.copiedElement.sourceId \notin NodeIds(lastCall.before.elements)

\* C21 happens also for a second paste, after the first pasted copy
PasteAfterPasteReached ==
  /\ lastCall # NullRec
  /\ lastCall.op = "pasteCopiedElement"
  /\ lastCall.before.copiedElement # NullRec
  /\ SourceInPlace(lastCall.before)
  /\ findElementById(lastCall.before.elements, lastCall.before.copiedElement.sourceId).name
       # lastCall.before.copiedElement.snapshot.name
  /\ findElementById(lastCall.before.elements, lastCall.before.copiedElement.sourceId).position
       = lastCall.before.copiedElement.snapshot.position

\* what is left of an identifier after a namespace it starts with
MemberName(identifier, namespace) == From(identifier, Len(namespace) + 1)

\* X is a member of the enum: its ordinal is returned; it is not: the
\* resolution fails and so does the import
ResolvesInEnum(names, key, out) ==
  IF \E i \in 1..Len(names) : names[i] = key
  THEN /\ \E i \in 1..Len(names) :
            names[i] = key /\ out.resolved = Returned(JsNumber(Num(i - 1)))
       /\ out.imported.result.success
  ELSE /\ out.resolved.error # NoError
       /\ ~out.imported.result.success
       /\ out.imported.result.error = out.resolved.error

\* the rule of C22 but for its last case: what an identifier that is none
\* of the named ones resolves to is left to other
ResolutionRule(other(_)) ==
  probe # NullRec =>
    \E identifier \in { probe.identifier } :
      IF identifier = "true" THEN probeOut.resolved = Returned(JsBoolean(TRUE))
      ELSE IF identifier = "false" THEN probeOut.resolved = Returned(JsBoolean(FALSE))
      ELSE IF identifier = "null" THEN probeOut.resolved = Returned(JsNull)
      ELSE IF StartsWith(identifier, "mod.UIAnchor.")
      THEN ResolvesInEnum(UIAnchorNames, MemberName(identifier, "mod.UIAnchor."), probeOut)
      ELSE IF StartsWith(identifier, "mod.UIBgFill.")
      THEN ResolvesInEnum(UIBgFillNames, MemberName(identifier, "mod.UIBgFill."), probeOut)
      ELSE IF StartsWith(identifier, "mod.UIImageType.")
      THEN ResolvesInEnum(UIImageTypeNames, MemberName(identifier, "mod.UIImageType."),
                          probeOut)
      ELSE IF StartsWith(identifier, "mod.stringkeys.")
      THEN probeOut.resolved = Returned(JsString(identifier))
      ELSE IF StartsWith(identifier, "mod.")
      THEN /\ probeOut.resolved.error # NoError
           /\ ~probeOut.imported.result.success
           /\ probeOut.imported.result.error = probeOut.resolved.error
      ELSE other(identifier)

\* C22 as stated: true, false and null resolve to their values;
\* mod.UIAnchor.X, mod.UIBgFill.X and mod.UIImageType.X resolve to the
\* ordinal of member X and make the import fail when X is no member;
\* mod.stringkeys.X is passed on unchanged as a string; any other identifier
\* that starts with mod. makes the import fail; every other identifier
\* resolves to itself as a string.
IdentifierResolution ==
  ResolutionRule(LAMBDA identifier : probeOut.resolved = Returned(JsString(identifier)))

\* C22 amended: as above, but the identifier undefined resolves to the
\* undefined value, and the import then gives what it gives for an object
\* that does not have the property.
IdentifierResolutionButUndefined ==
  ResolutionRule(LAMBDA identifier :
    IF identifier = "undefined"
    THEN /\ probeOut.resolved = Returned(JsUndefined)
         /\ probeOut.imported
              = importFromTypescript("modlib.ParseUI({ });", probe.mode,
                                     Store(elements, selectedElementId, nextId, copiedElement))
         /\ probeOut.imported.result.success
    ELSE probeOut.resolved = Returned(JsString(identifier)))

\* C22 happens: a name that is no member of UIAnchor has been resolved as
\* the value of a property, and the import of the text has failed
IdentifierResolutionReached ==
  /\ probe # NullRec
  /\ probe.identifier = "mod.UIAnchor.Middle"
  /\ probe.property = "anchor"
  /\ probeOut.resolved.error = "Unknown UIAnchor member 'Middle' in ParseUI import."
  /\ ~probeOut.imported.result.success

\* how far parseParseUiTypescript has come: the text index while the
\* payloads are extracted; then the payload it is at, whether that is being
\* split or parsed, and the index into the payload or, while parsing, the
\* token index, counted twice, less one while a value read waits to be put
\* where it goes
PipelineRank(p) ==
  CASE p.stage = "search" -> p.searchIndex
    [] p.stage = "scan" -> p.scan.index
    [] p.stage = "tokenize" -> 10000000 + 100000 * p.k + p.lex.index
    [] p.stage = "parse" -> 10000000 + 100000 * p.k + 10000 + 2 * p.parse.index
                              + (IF p.parse.hasValue THEN 0 ELSE 1)
    [] OTHER -> 20000000

\* C23: the import pipeline terminates on every text. Every round of the
\* marker search, of the parenthesis scan, of the tokenizer and of the
\* parser strictly advances its text index or its token index, so each of
\* them finishes, with a result or with a failure, and what they finish
\* with is what parseParseUiTypescript gives.
PipelineTerminates ==
  /\ [][PipelineRank(probe') > PipelineRank(probe)]_vars
  /\ [](PipelineRank(probe) <= 20000000)
  /\ [](probe.stage = "search" => probe.searchIndex <= Len(probe.source) + 1)
  /\ [](probe.stage = "scan" => probe.scan.index <= Len(probe.source) + 1)
  /\ [](probe.stage = "tokenize" => probe.lex.index <= Len(probe.payloads[probe.k]) + 1)
  /\ [](probe.stage = "parse" => probe.parse.index <= Len(probe.lex.tokens) + 1)
  /\ [](probe.stage = "done" =>
          /\ probeOut.error = probe.error
          /\ probe.error = NoError => Len(probeOut.params) = probe.count)
  /\ <>(probe.stage = "done")

\* C23 happens: a text with two calls, comments, strings that hold
\* parentheses, and nested literals has gone through every loop and three
\* arguments have come out
PipelineTerminatesReached ==
  /\ probe.stage = "done"
  /\ probe.error = NoError
  /\ Len(probe.payloads) = 2
  /\ probe.count = 3
  /\ probe.k = 3

\* the lines of the candidates on the x axis in the order they are scanned:
\* rect by rect, leading edge, trailing edge, centre; for each the distance
\* to the like line of the proposed box, the coordinate that puts the box
\* on it and the place of its rect among the candidates
ScanLinesX(call) ==
  [ n \in 1..(3 * Len(call.candidates)) |->
      The({ CASE (n - 1) % 3 = 0 ->
                   [ diff |-> Abs(rect.left - call.proposedX), snapped |-> rect.left,
                     guide |-> rect.left, rect |-> (n - 1) \div 3 + 1 ]
              [] (n - 1) % 3 = 1 ->
                   [ diff |-> Abs(rect.right - (call.proposedX + call.width)),
                     snapped |-> rect.right - call.width,
                     guide |-> rect.right, rect |-> (n - 1) \div 3 + 1 ]
              [] OTHER ->
                   [ diff |-> Abs(rect.centerX - (call.proposedX + Half(call.width))),
                     snapped |-> rect.centerX - Half(call.width),
                     guide |-> rect.centerX, rect |-> (n - 1) \div 3 + 1 ]
            : rect \in { call.candidates[(n - 1) \div 3 + 1].rect } }) ]

ScanLinesY(call) ==
  [ n \in 1..(3 * Len(call.candidates)) |->
      The({ CASE (n - 1) % 3 = 0 ->
                   [ diff |-> Abs(rect.top - call.proposedY), snapped |-> rect.top,
                     guide |-> rect.top, rect |-> (n - 1) \div 3 + 1 ]
              [] (n - 1) % 3 = 1 ->
                   [ diff |-> Abs(rect.bottom - (call.proposedY + call.height)),
                     snapped |-> rect.bottom - call.height,
                     guide |-> rect.bottom, rect |-> (n - 1) \div 3 + 1 ]
              [] OTHER ->
                   [ diff |-> Abs(rect.centerY - (call.proposedY + Half(call.height))),
                     snapped |-> rect.centerY - Half(call.height),
                     guide |-> rect.centerY, rect |-> (n - 1) \div 3 + 1 ]
            : rect \in { call.candidates[(n - 1) \div 3 + 1].rect } }) ]

\* the places of the lines within the threshold that no line is nearer than
Nearest(lines) ==
  { n \in 1..Len(lines) : /\ lines[n].diff <= Num(8)
                          /\ \A m \in 1..Len(lines) : lines[m].diff >= lines[n].diff }

\* the line an axis is aligned to: the first of the nearest ones; a line
\* with no rect when there is none within the threshold
Winner(lines, proposed) ==
  IF Nearest(lines) = { } THEN [ diff |-> 0, snapped |-> proposed, guide |-> 0, rect |-> 0 ]
  ELSE lines[Min(Nearest(lines))]

\* C24: on each axis by itself, applySnapping aligns the moving box to the
\* candidate line with the smallest distance among those within the
\* threshold, and among lines at the same distance to the one scanned
\* first (rects in the order given, in a rect leading edge, trailing edge,
\* centre); x comes from the x data alone and y from the y data alone.
PerAxisSnapSelection ==
  snapCall # NullRec =>
    \E x \in { Winner(ScanLinesX(snapCall), snapCall.proposedX) } :
      \E y \in { Winner(ScanLinesY(snapCall), snapCall.proposedY) } :
        /\ snapCall.result.x = x.snapped
        /\ snapCall.result.y = y.snapped
        /\ snapCall.result.vertical = IF x.rect = 0 THEN << >> ELSE << x.guide >>
        /\ snapCall.result.horizontal = IF y.rect = 0 THEN << >> ELSE << y.guide >>

\* C24 happens: one call aligns x to a line of one rect and y to a line of
\* another rect, no line of which is within the threshold on the other axis
PerAxisSnapSelectionReached ==
  /\ snapCall # NullRec
  /\ \E x \in { Winner(ScanLinesX(snapCall), snapCall.proposedX) } :
       \E y \in { Winner(ScanLinesY(snapCall), snapCall.proposedY) } :
         /\ x.rect # 0 /\ y.rect # 0 /\ x.rect # y.rect
         /\ \A n \in Nearest(ScanLinesX(snapCall)) : ScanLinesX(snapCall)[n].rect # y.rect
         /\ \A n \in Nearest(ScanLinesY(snapCall)) : ScanLinesY(snapCall)[n].rect # x.rect
         /\ snapCall.result.x = x.snapped /\ snapCall.result.x # snapCall.proposedX
         /\ snapCall.result.y = y.snapped /\ snapCall.result.y # snapCall.proposedY

\* C24 happens also with two lines at the same distance that give
\* different coordinates
SnapTieReached ==
  /\ snapCall # NullRec
  /\ \E n, m \in Nearest(ScanLinesX(snapCall)) :
       ScanLinesX(snapCall)[n].snapped # ScanLinesX(snapCall)[m].snapped


\* ---------------------------------------------------------------------
\* The bulk bounds against the per-node recursion
\* ---------------------------------------------------------------------
\* the bulk pass and the recursion give this node the same corner
SameCorner(elems, element) ==
  \E entry \in { getElementBounds(elems, element.id) },
     at \in { getAbsoluteGamePosition(elems, element) } :
    /\ entry # NullRec
    /\ entry.rect.left = at.x
    /\ entry.rect.top = at.y

\* C25: for every tree and every node e in it, the left/top of e's rect in
\* the service's computeElementBounds equals the canvas component's
\* getAbsoluteGamePosition(e); the candidates handed to the snapping are in
\* these coordinates as well.
BulkAgreesWithRecursion ==
  /\ \A i \in 1..Len(Flatten(elements)) : SameCorner(elements, Flatten(elements)[i])
  /\ Len(computeElementBounds(elements)) = Len(Flatten(elements))

\* after a drag moved the middle of the chain, the grandchild, whose anchor
\* is TopCenter in a CenterLeft parent in a BottomRight root, has the same
\* corner from both computations, away from the corner it started at
BulkAgreesWithRecursionReached ==
  /\ moves > 0
  /\ \E i \in 1..Len(Flatten(elements)) :
       \E e \in { Flatten(elements)[i] } :
         /\ e.id = 3
         /\ e.anchor = TopCenter
         /\ findParentElement(elements, 3) # NullRec
         /\ findParentElement(elements, 3).anchor = CenterLeft
         /\ findParentElement(elements, 2) # NullRec
         /\ SameCorner(elements, e)
         /\ getAbsoluteGamePosition(elements, e) # getAbsoluteGamePosition(SceneChain, e)
         /\ findElementById(elements, 2).position # << Num(20), 0 >>


\* ---------------------------------------------------------------------
\* The lock against updateElement
\* ---------------------------------------------------------------------
\* the update itself sets locked to false
Unlocks(updates) == "locked" \in DOMAIN updates /\ updates.locked = FALSE

\* the fields of an update that a node now carries
Applied(node, updates, fields) ==
  \A f \in fields : f \in DOMAIN node /\ node[f] = updates[f]

\* C26: a locked element cannot be moved or resized through updateElement:
\* when the element's locked flag is true and the update does not itself
\* set locked to false, its position and size after the call equal those
\* before it while every other field of the update is applied; an update
\* that sets locked to false applies its position and size too. Nothing
\* else of the tree changes.
LockedKeepsPlace ==
  (lastCall # NullRec /\ lastCall.op = "updateElement") =>
    \E before \in { lastCall.before.elements }, id \in { lastCall.args.elementId },
       updates \in { lastCall.args.updates } :
      /\ Len(Flatten(elements)) = Len(Flatten(before))
      /\ \A i \in 1..Len(Flatten(before)) :
           \E was \in { Flatten(before)[i] }, now \in { Flatten(elements)[i] } :
             /\ now.id = was.id
             /\ IdsOf(now.children) = IdsOf(was.children)
             /\ was.id # id => Fields(now) = Fields(was)
             /\ (was.id = id /\ was.locked /\ ~Unlocks(updates)) =>
                  /\ now.position = was.position
                  /\ now.size = was.size
                  /\ Applied(now, updates, (DOMAIN updates) \ {"position", "size"})
             /\ (was.id = id /\ (Unlocks(updates) \/ ~was.locked)) =>
                  Applied(now, updates, DOMAIN updates)
             /\ was.id = id =>
                  \A f \in (DOMAIN was) \ (DOMAIN updates) : now[f] = was[f]

\* a locked element was handed a new name, place and size: it has the name
\* and is where it was
LockedKeepsPlaceReached ==
  /\ lastCall # NullRec
  /\ lastCall.op = "updateElement"
  /\ "name" \in DOMAIN lastCall.args.updates
  /\ "position" \in DOMAIN lastCall.args.updates
  /\ \E was \in { findElementById(lastCall.before.elements, lastCall.args.elementId) },
        now \in { findElementById(elements, lastCall.args.elementId) } :
       /\ was # NullRec
       /\ was.locked
       /\ was.name # lastCall.args.updates.name
       /\ now.name = lastCall.args.updates.name
       /\ now.position = was.position
       /\ now.position # lastCall.args.updates.position
       /\ now.size # lastCall.args.updates.size

\* a locked element was unlocked and moved by one update
UnlockMovesReached ==
  /\ lastCall # NullRec
  /\ lastCall.op = "updateElement"
  /\ Unlocks(lastCall.args.updates)
  /\ \E was \in { findElementById(lastCall.before.elements, lastCall.args.elementId) },
        now \in { findElementById(elements, lastCall.args.elementId) } :
       /\ was # NullRec
       /\ was.locked
       /\ ~now.locked
       /\ now.position = lastCall.args.updates.position
       /\ now.position # was.position
       /\ now.size = lastCall.args.updates.size


\* ---------------------------------------------------------------------
\* The selection against the tree
\* ---------------------------------------------------------------------
\* C27: the selection never dangles: after any sequence of addElement,
\* removeElement, duplicateElement, pasteCopiedElement, moveElement, clear,
\* importFromTypescript and selectElement (called with null or the id of a
\* node of the tree), selectedElementId is null or the id of a node that is
\* in the tree, also after an ancestor of the selected node was removed.
SelectionNeverDangles ==
  selectedElementId = NoId \/ selectedElementId \in NodeIds(elements)


\* ---------------------------------------------------------------------
\* The drag of a multi-selection
\* ---------------------------------------------------------------------
\* what the rounding of the stored positions to two decimals can add up to
\* along a chain of three nodes
RoundingSlack == 3 * (Num(1) \div 200)

Near(a, b) == a - b <= RoundingSlack /\ b - a <= RoundingSlack

\* the entry's node is where it was at the start of the drag, moved by
\* the displacement of the dragged node
MovedRigidly(elems, entry, delta) ==
  \E at \in { AbsoluteOf(elems, entry.id) } :
    /\ Near(at.x, entry.absoluteX + delta.x)
    /\ Near(at.y, entry.absoluteY + delta.y)

\* C28: multi-select moves are rigid: after every pointer-move of a
\* multi-selection drag, each unlocked co-moving node's absolute position is
\* its absolute position at the start of the drag plus the dragged node's
\* displacement (the snapped position minus its start position, up to the
\* rounding of stored positions to two decimals), whatever the order of
\* the selected ids and also when a node and one of its ancestors are both
\* in the selection.
MultiSelectMovesRigid ==
  [][ (component = "multi" /\ isDragging /\ isDragging' /\ snapCall' # NullRec
       /\ \E i \in 1..Len(multiDragElements) : multiDragElements[i].id = dragElement.id)
      => \A i \in 1..Len(multiDragElements) :
           MovedRigidly(elements', multiDragElements[i],
                        [ x |-> snapCall'.result.x - dragElementStartAbsolute.x,
                          y |-> snapCall'.result.y - dragElementStartAbsolute.y ]) ]_vars


\* ---------------------------------------------------------------------
\* The string table against the references of the same export
\* ---------------------------------------------------------------------
ReferencePrefix == "mod.stringkeys."

\* C29: a string-table reference always points at the node's own text:
\* whenever a Text node is exported as mod.stringkeys.K, the string table of
\* the same export has an entry for K whose value is that node's trimmed
\* label, also when several Text nodes share a name or when a Text node
\* with an empty label shares its name with a labelled one.
ReferencePointsAtOwnText ==
  artifacts # NullRec =>
    \E nodes \in { TextNodes(artifacts.exported) },
       values \in { LabelValues(artifacts.typescriptCode) } :
      /\ Len(values) = Len(nodes)
      /\ \A i \in 1..Len(nodes) :
           StartsWith(values[i], ReferencePrefix) =>
             \E K \in { From(values[i], Len(ReferencePrefix) + 1) } :
               /\ K \in DOMAIN artifacts.strings
               /\ artifacts.strings[K] = Trim(nodes[i].textLabel)


\* ---------------------------------------------------------------------
\* The export as input of the import
\* ---------------------------------------------------------------------
\* C30: the exporter's output is always accepted by the importer: for every
\* tree with at least one root, whatever the names and labels of its nodes
\* (names with several spaces, hyphens or quote characters included),
\* importFromTypescript returns success = true on the typescriptCode that
\* generateExportArtifacts produced for that tree.
ExportIsAccepted ==
  \A mode \in ImportModes :
    (ImportedExport(mode) /\ Len(artifacts.exported) >= 1) => lastCall.result.success

=============================================================================
